---- MODULE Spec2Model ----
(***************************************************************************)
(* Model of the FLO-2D postprocessor's extraction and merge pipeline:      *)
(* modules/data_extraction.py (readers, process_file, controlled_merge,    *)
(* extractModelDataToDF), modules/arf_extraction.py and the part of        *)
(* main.py:process_flo2d that consumes the merged table.                   *)
(*                                                                         *)
(* A file is a sequence of lines, a line the sequence of its whitespace-   *)
(* separated tokens (strings).  A table (pandas DataFrame) is a record     *)
(* [cols, rows]: the column names in order and the rows, each row the      *)
(* sequence of its cell values in column order.  Cells are integers; the   *)
(* pandas null (NaN / <NA> / None) is the value NaN below.                 *)
(***************************************************************************)
EXTENDS Integers, Sequences, FiniteSets, TLC

\* ------------------------------------------------------------------ bounds
\* Raw (1-based) grid identifiers of the input files are 1..MaxId.
MaxId == 2
\* Worker threads of the pool.  ThreadPoolExecutor() takes
\* min(32, cpu_count + 4) workers; the model bounds it.
MaxWorkers == 2
\* Longest column list handed to ensure_unique_columns on its own.
MaxCols == 4

\* ------------------------------------------------------------ basic values
\* The pandas null.
NaN == -999

Range(s) == {s[i] : i \in 1..Len(s)}

Max2(a, b) == IF a >= b THEN a ELSE b

\* Numeric tokens of the input files and their values (float()/int()/
\* pd.to_numeric of the token text).
NumTokens == <<"0", "1", "2", "3", "4", "5", "6", "7", "8", "9">>

isdigit(t) == t \in Range(NumTokens)

IntOf(t) == (CHOOSE i \in 1..Len(NumTokens) : NumTokens[i] = t) - 1

Tok(n) == NumTokens[n + 1]

\* pd.to_numeric(errors='coerce') on one cell.
to_numeric_coerce(t) == IF isdigit(t) THEN IntOf(t) ELSE NaN

\* Arithmetic on a column that may hold nulls: null stays null.
Minus1(v) == IF v = NaN THEN NaN ELSE v - 1

Times_unscaled(v, m) == v

Times(v, m) == IF v = NaN THEN NaN ELSE v * m

\* ------------------------------------------------------------------ tables
\* pd.DataFrame(): no columns, no rows.
NoTable == [cols |-> <<>>, rows |-> <<>>]

\* DataFrame.empty: some axis has length 0.
IsEmpty(T) == Len(T.cols) = 0 \/ Len(T.rows) = 0

HasCol(T, c) == c \in Range(T.cols)

\* Position of the (first) column named c.
ColIdx(T, c) == CHOOSE i \in 1..Len(T.cols) : T.cols[i] = c /\ \A j \in 1..(i - 1) : T.cols[j] # c

\* The values of column c, in row order (df[c]).
Column(T, c) == [i \in 1..Len(T.rows) |-> T.rows[i][ColIdx(T, c)]]

\* df[c] = vals for the column named c, vals holding one value per row.
SetColumn(T, c, vals) ==
    [cols |-> T.cols,
     rows |-> [i \in 1..Len(T.rows) |->
                 [j \in 1..Len(T.cols) |->
                    IF j = ColIdx(T, c) THEN vals[i] ELSE T.rows[i][j]]]]

\* Pad a short record with nulls / cut a long one to n cells.
PadTo(row, n) == [j \in 1..n |-> IF j <= Len(row) THEN row[j] ELSE NaN]

RECURSIVE MaxLen(_)
MaxLen(lines) == IF lines = <<>> THEN 0 ELSE Max2(Len(Head(lines)), MaxLen(Tail(lines)))

\* ------------------------------------------------------ pandas left merge
\* Attribute columns present on both sides of a merge on grid_id.
Overlap(L, R) == (Range(L.cols) \cap Range(R.cols)) \ {"grid_id"}

\* Positions of the right-hand columns other than the key, in order.
RightIdx(R) == SelectSeq([i \in 1..Len(R.cols) |-> i], LAMBDA i : R.cols[i] # "grid_id")

\* Column names of pd.merge(L, R, on='grid_id', suffixes=(ls, rs)).
MergedCols(L, R, ls, rs) ==
    [i \in 1..Len(L.cols) |->
        IF L.cols[i] \in Overlap(L, R) THEN L.cols[i] \o ls ELSE L.cols[i]]
    \o
    [j \in 1..Len(RightIdx(R)) |->
        LET c == R.cols[RightIdx(R)[j]]
        IN IF c \in Overlap(L, R) THEN c \o rs ELSE c]

\* The right-hand rows a left-hand key matches (equal key; pandas matches a
\* null key with a null key as well).
MatchRows_cross(R, k) == R.rows

MatchRows(R, k) == SelectSeq(R.rows, LAMBDA r : r[ColIdx(R, "grid_id")] = k)

\* The rows a left row produces under how='left': one per matching right
\* row, in right order; one null-filled row when nothing matches.
LeftRowsOut(lrow, ms, R) ==
    IF ms = <<>>
    THEN << lrow \o [j \in 1..Len(RightIdx(R)) |-> NaN] >>
    ELSE [m \in 1..Len(ms) |-> lrow \o [j \in 1..Len(RightIdx(R)) |-> ms[m][RightIdx(R)[j]]]]

RECURSIVE JoinRowsLeft(_, _, _)
JoinRowsLeft(L, R, i) ==
    IF i > Len(L.rows) THEN <<>>
    ELSE LeftRowsOut(L.rows[i], MatchRows(R, L.rows[i][ColIdx(L, "grid_id")]), R)
         \o JoinRowsLeft(L, R, i + 1)

\* how='right' (used only to state a defect of the join): one row per right
\* row, in right order, with the left cells of every matching left row.
RECURSIVE JoinRowsRight(_, _, _)
JoinRowsRight(L, R, i) ==
    IF i > Len(R.rows) THEN <<>>
    ELSE LET rrow == R.rows[i]
             k == rrow[ColIdx(R, "grid_id")]
             ms == SelectSeq(L.rows, LAMBDA l : l[ColIdx(L, "grid_id")] = k)
             ext == [j \in 1..Len(RightIdx(R)) |-> rrow[RightIdx(R)[j]]]
             nul == [j \in 1..Len(L.cols) |-> IF j = ColIdx(L, "grid_id") THEN k ELSE NaN]
         IN (IF ms = <<>> THEN << nul \o ext >> ELSE [m \in 1..Len(ms) |-> ms[m] \o ext])
            \o JoinRowsRight(L, R, i + 1)

pd_merge_right(L, R, ls, rs) ==
    [cols |-> MergedCols(L, R, ls, rs), rows |-> JoinRowsRight(L, R, 1)]

\* pd.merge(L, R, on='grid_id', how='left', suffixes=(ls, rs)).
pd_merge_left(L, R, ls, rs) ==
    [cols |-> MergedCols(L, R, ls, rs), rows |-> JoinRowsLeft(L, R, 1)]

\* Series.fillna(v) on column c.
fillna_none(T, c, v) == T

fillna(T, c, v) ==
    SetColumn(T, c, [i \in 1..Len(T.rows) |->
                       IF Column(T, c)[i] = NaN THEN v ELSE Column(T, c)[i]])

\* ----------------------------------------------------------------- readers
\* A reader's outcome: the table it returns, or an exception.
Returned(T) == [raised |-> FALSE, df |-> T]
Raised == [raised |-> TRUE, df |-> NoTable]

\* pandas/dask read_csv(delim_whitespace=True, header=None, names=names,
\* skiprows=skiprows): names = <<>> stands for names=None (columns are then
\* numbered 0..n-1, written "0".."8" here); an input without data lines
\* raises EmptyDataError.
read_csv(lines, names, skiprows) ==
    LET body == SelectSeq(SubSeq(lines, skiprows + 1, Len(lines)), LAMBDA l : l # <<>>)
        n == IF names = <<>> THEN Len(body[1]) ELSE Len(names)
        cols == IF names = <<>> THEN [j \in 1..n |-> Tok(j - 1)] ELSE names
    IN IF body = <<>> THEN Raised
       ELSE Returned([cols |-> cols,
                      rows |-> [i \in 1..Len(body) |->
                                  PadTo([j \in 1..Len(body[i]) |-> to_numeric_coerce(body[i][j])], n)]])

read_with_dask_optimized(lines, column_names, skiprows) == read_csv(lines, column_names, skiprows)

read_file_with_line_number_raw(lines, column_names, skiprows) ==
    LET r == read_csv(lines, column_names, skiprows)
    IN IF r.raised THEN Raised
       ELSE Returned([cols |-> <<"grid_id">> \o r.df.cols,
                      rows |-> [i \in 1..Len(r.df.rows) |-> <<r.df.rows[i][1]>> \o r.df.rows[i]]])

read_file_with_line_number(lines, column_names, skiprows) ==
    LET r == read_csv(lines, column_names, skiprows)
    IN IF r.raised THEN Raised
       ELSE Returned([cols |-> <<"grid_id">> \o r.df.cols,
                      rows |-> [i \in 1..Len(r.df.rows) |-> <<i - 1>> \o r.df.rows[i]]])

\* pd.DataFrame(data, columns=columns) for a list of token lists: short
\* records are null-padded; a longest record of another width than the
\* column list raises.
DataFrameOf(data, columns) ==
    IF data = <<>> THEN Returned([cols |-> columns, rows |-> <<>>])
    ELSE IF MaxLen(data) # Len(columns) THEN Raised
    ELSE Returned([cols |-> columns,
                   rows |-> [i \in 1..Len(data) |->
                               PadTo([j \in 1..Len(data[i]) |-> to_numeric_coerce(data[i][j])],
                                     Len(columns))]])

\* line.startswith('R') on a line given by its tokens.
StartsWithR(line) == line # <<>> /\ line[1] = "R"

extract_rain_data(lines) ==
    IF Len(lines) < 2 \/ lines[2] = <<>> \/ ~isdigit(lines[2][1]) THEN Raised
    ELSE IF ~\E i \in 1..Len(lines) : StartsWithR(lines[i]) THEN Raised
    ELSE LET multiplier_value == IntOf(lines[2][1])
             last_r_index == CHOOSE i \in 1..Len(lines) :
                                /\ StartsWithR(lines[i])
                                /\ \A j \in (i + 1)..Len(lines) : ~StartsWithR(lines[j])
             data == SelectSeq(SubSeq(lines, last_r_index + 1, Len(lines)), LAMBDA l : l # <<>>)
             r == DataFrameOf(data, <<"grid_id", "rain_depth">>)
         IN IF r.raised THEN Raised
            ELSE Returned(SetColumn(r.df, "rain_depth",
                    [i \in 1..Len(r.df.rows) |->
                       Times(Column(r.df, "rain_depth")[i], multiplier_value)]))

infil_columns == <<"grid_id", "xksat", "psif", "dtheta", "abstrinf", "rtimpf", "soil_depth">>

read_infil_dat(lines) ==
    IF Len(lines) < 3 THEN Raised
    ELSE LET rest == SubSeq(lines, 4, Len(lines))
         IN IF \E i \in 1..Len(rest) : rest[i] = <<>> THEN Raised
            ELSE DataFrameOf([i \in 1..Len(SelectSeq(rest, LAMBDA l : l[1] = "F")) |->
                                 Tail(SelectSeq(rest, LAMBDA l : l[1] = "F")[i])],
                             infil_columns)

FpxsecLineRows_before(parts, line_number) ==
    LET ids == SelectSeq(SubSeq(parts, 4, Len(parts)), isdigit)
    IN [i \in 1..Len(ids) |-> <<IntOf(ids[i]) - 1, line_number - 1>>]

\* The rows one line of FPXSEC.DAT adds, given the value of the counter
\* after the line.
FpxsecLineRows(parts, line_number) ==
    LET ids == SelectSeq(SubSeq(parts, 4, Len(parts)), isdigit)
    IN [i \in 1..Len(ids) |-> <<IntOf(ids[i]) - 1, line_number>>]

IsXLine(parts) == parts # <<>> /\ parts[1] = "X"

RECURSIVE FpxsecRows(_, _, _)
FpxsecRows(lines, i, line_number) ==
    IF i > Len(lines) THEN <<>>
    ELSE IF IsXLine(lines[i])
         THEN FpxsecLineRows(lines[i], line_number + 1) \o FpxsecRows(lines, i + 1, line_number + 1)
         ELSE FpxsecRows(lines, i + 1, line_number)

\* f = [exists, lines]: the file FPXSEC.DAT of the project directory.
read_fpxsec_data_as_df(f) ==
    IF ~f.exists THEN NoTable
    ELSE IF FpxsecRows(f.lines, 1, 0) = <<>> THEN NoTable
    ELSE [cols |-> <<"grid_id", "fpxsec">>, rows |-> FpxsecRows(f.lines, 1, 0)]

super_columns == <<"grid_id", "max_froude_no", "depth_super", "time_super", "num_supercritical_timesteps">>

extract_super_data(lines) ==
    LET data == SelectSeq(SubSeq(lines, 8, Len(lines)), LAMBDA l : Len(l) = 5)
    IN IF \E i \in 1..Len(data) : \E j \in 1..5 : ~isdigit(data[i][j]) THEN Raised
       ELSE IF data = <<>> THEN Returned(NoTable)
       ELSE Returned([cols |-> super_columns,
                      rows |-> [i \in 1..Len(data) |->
                                  [j \in 1..5 |-> IF j = 1 THEN IntOf(data[i][1]) - 1
                                                  ELSE IntOf(data[i][j])]]])

\* ------------------------------------------------ files mapping, process_file
\* The keys of the files mapping of extractModelDataToDF, in declaration
\* order: the order in which the reads are submitted to the pool.
Files == <<"DEPTH.OUT", "MANNINGS_N.DAT", "TOPO.DAT", "VELFP.OUT", "MAXQHYD.OUT",
           "MAXWSELEV.OUT", "INFIL_DEPTH.OUT", "TIMEONEFT.OUT", "TIMETWOFT.OUT",
           "TIMETOPEAK.OUT", "FINALVEL.OUT", "FINALDEP.OUT", "RAIN.DAT", "SUPER.OUT">>

PoolNames == Range(Files)

\* The files extractModelDataToDF reads itself, after the pool.
AllNames == PoolNames \cup {"INFIL.DAT", "FPXSEC.DAT"}

\* Position of a pool file in the declaration order.
FileIdx(name) == CHOOSE i \in 1..Len(Files) : Files[i] = name

\* column_names of each entry (<<>> for None or no such parameter).
column_names(name) ==
    CASE name = "DEPTH.OUT"       -> <<"grid_id", "x", "y", "depth_max">>
      [] name = "MANNINGS_N.DAT"  -> <<"grid_id", "mannings_n">>
      [] name = "TOPO.DAT"        -> <<"x", "y", "topo">>
      [] name = "VELFP.OUT"       -> <<"grid_id", "x", "y", "velocity">>
      [] name = "MAXWSELEV.OUT"   -> <<"grid_id", "x", "y", "wse_max">>
      [] name = "INFIL_DEPTH.OUT" -> <<"x", "y", "infil_depth", "infil_stop">>
      [] name = "TIMEONEFT.OUT"   -> <<"grid_id", "x", "y", "time_of_oneft">>
      [] name = "TIMETWOFT.OUT"   -> <<"grid_id", "x", "y", "time_of_twoft">>
      [] name = "TIMETOPEAK.OUT"  -> <<"grid_id", "x", "y", "time_to_peak">>
      [] name = "FINALVEL.OUT"    -> <<"grid_id", "x", "y", "final_velocity">>
      [] name = "FINALDEP.OUT"    -> <<"grid_id", "x", "y", "final_depth">>
      [] OTHER                    -> <<>>

skiprows(name) ==
    CASE name = "MAXQHYD.OUT"     -> 4
      [] name = "INFIL_DEPTH.OUT" -> 1
      [] OTHER                    -> 0

\* Entries with a custom_extraction_function.
CustomFiles == {"RAIN.DAT", "SUPER.OUT"}

\* The two readers that synthesize grid_id from the row position.
LineNumberFiles == {"TOPO.DAT", "INFIL_DEPTH.OUT"}

\* The reader process_file dispatches to.
ReadFile(name, lines) ==
    IF name = "RAIN.DAT" THEN extract_rain_data(lines)
    ELSE IF name = "SUPER.OUT" THEN extract_super_data(lines)
    ELSE IF name \in LineNumberFiles
         THEN read_file_with_line_number(lines, column_names(name), skiprows(name))
         ELSE read_with_dask_optimized(lines, column_names(name), skiprows(name))

\* df['grid_id'] = df['grid_id'] - 1 behind its guard.
AdjustGridId_none(name, df) == df

AdjustGridId(name, df) ==
    IF HasCol(df, "grid_id") /\ name \notin LineNumberFiles
    THEN SetColumn(df, "grid_id", [i \in 1..Len(df.rows) |-> Minus1(Column(df, "grid_id")[i])])
    ELSE df

\* The result tuple (name, df, error): hasDf = FALSE is df = None and
\* error = "" is error = None.
NotFound == [hasDf |-> FALSE, df |-> NoTable, error |-> "not found"]
Failed == [hasDf |-> FALSE, df |-> NoTable, error |-> "exception"]
Success(T) == [hasDf |-> TRUE, df |-> T, error |-> ""]

process_file_noexists(name, f) ==
    IF ~f.exists \/ ReadFile(name, f.lines).raised THEN Failed
    ELSE Success(AdjustGridId(name, ReadFile(name, f.lines).df))

process_file_both(name, f) ==
    IF ~f.exists THEN NotFound
    ELSE IF ReadFile(name, f.lines).raised
         THEN [hasDf |-> TRUE, df |-> NoTable, error |-> "exception"]
         ELSE Success(AdjustGridId(name, ReadFile(name, f.lines).df))

\* f = [exists, lines]: the file called name in the project directory.
process_file(name, f) ==
    IF ~f.exists THEN NotFound
    ELSE IF ReadFile(name, f.lines).raised THEN Failed
    ELSE Success(AdjustGridId(name, ReadFile(name, f.lines).df))

\* ------------------------------------------- steps of extractModelDataToDF
\* data_frames is a dict: keys lists its keys in insertion order, frames
\* gives the table of each key.
NoFrames == [n \in AllNames |-> NoTable]

\* data_frames[name] = T: a new key goes last, an existing key keeps its place.
SetFrame(D, name, T) ==
    [keys |-> IF name \in Range(D.keys) THEN D.keys ELSE Append(D.keys, name),
     frames |-> [D.frames EXCEPT ![name] = T]]

\* The body of the as_completed loop for one resolved future.
Collect(D, name, res) ==
    IF res.error # "" THEN D
    ELSE IF res.hasDf /\ ~IsEmpty(res.df) THEN SetFrame(D, name, res.df)
    ELSE D

\* Rows of T whose first column is >= 1 (a null compares false).
FirstColAtLeast1(T) ==
    [cols |-> T.cols, rows |-> SelectSeq(T.rows, LAMBDA r : r[1] # NaN /\ r[1] >= 1)]

\* iloc[:, [0, 7, 8]] renamed to grid_id, q_max, flow_direction, and the
\* 1-based identifier made 0-based.
MaxqhydSelect(T) ==
    [cols |-> <<"grid_id", "q_max", "flow_direction">>,
     rows |-> [i \in 1..Len(T.rows) |-> <<Minus1(T.rows[i][1]), T.rows[i][8], T.rows[i][9]>>]]

\* "Process MAXQHYD.OUT separately": the new data_frames, or an IndexError
\* when the table has fewer than nine columns.
ProcessMaxqhyd(D) ==
    IF "MAXQHYD.OUT" \notin Range(D.keys) THEN [raised |-> FALSE, D |-> D]
    ELSE IF IsEmpty(FirstColAtLeast1(D.frames["MAXQHYD.OUT"])) THEN [raised |-> FALSE, D |-> D]
    ELSE IF Len(D.frames["MAXQHYD.OUT"].cols) < 9 THEN [raised |-> TRUE, D |-> D]
    ELSE [raised |-> FALSE,
          D |-> SetFrame(D, "MAXQHYD.OUT", MaxqhydSelect(FirstColAtLeast1(D.frames["MAXQHYD.OUT"])))]

\* verify_grid_ids: what it prints for one table that has a grid_id column.
GridIdReport_total(name, T) ==
    [name |-> name, unique_count |-> Len(T.rows), total_count |-> Len(T.rows),
     duplicate_warning |-> FALSE]

GridIdReport(name, T) ==
    [name |-> name,
     unique_count |-> Cardinality(Range(Column(T, "grid_id")) \ {NaN}),
     total_count |-> Len(T.rows),
     duplicate_warning |-> Cardinality(Range(Column(T, "grid_id")) \ {NaN}) # Len(T.rows)]

verify_grid_ids(D) ==
    {GridIdReport(n, D.frames[n]) : n \in {m \in Range(D.keys) : HasCol(D.frames[m], "grid_id")}}

\* The join of controlled_merge's loop body.
fold_join_right(result, name, df) == pd_merge_right(result, df, "", "_" \o name)

fold_join(result, name, df) == pd_merge_left(result, df, "", "_" \o name)

\* One iteration of controlled_merge's loop: st = [result, total_rows].
\* kind tells what the iteration did.
MergeOne(st, name, df) ==
    IF name # "DEPTH.OUT" /\ ~IsEmpty(df)
    THEN IF HasCol(df, "grid_id")
         THEN LET merged == fold_join(st.result, name, df)
              IN [result |-> merged,
                  total_rows |-> Len(merged.rows),
                  kind |-> "joined",
                  warned |-> Len(merged.rows) # st.total_rows]
         ELSE IF name = "FPXSEC.DAT"
              \* merge on a key the table lacks: KeyError
              THEN [result |-> st.result, total_rows |-> st.total_rows,
                    kind |-> "raised", warned |-> FALSE]
              ELSE [result |-> st.result, total_rows |-> st.total_rows,
                    kind |-> "skipped", warned |-> FALSE]
    ELSE [result |-> st.result, total_rows |-> st.total_rows,
          kind |-> "skipped", warned |-> FALSE]

\* The join "Ensure SUPER.OUT data is included in the merge".
super_join(main, df) == pd_merge_left(main, df, "_x", "_y")

\* ensure_unique_columns.
\* cols[cols.duplicated()].unique(): the names that occur again, in the
\* order of their second occurrence.
IsRepeat(cols, i) == \E j \in 1..(i - 1) : cols[j] = cols[i]

RECURSIVE DupNames(_, _, _)
DupNames(cols, i, seen) ==
    IF i > Len(cols) THEN <<>>
    ELSE IF IsRepeat(cols, i) /\ cols[i] \notin seen
         THEN <<cols[i]>> \o DupNames(cols, i + 1, seen \cup {cols[i]})
         ELSE DupNames(cols, i + 1, seen)

\* cols[mask] = [dup_i if i != 0 else dup ...]: the k-th column named dup
\* (k from 0) becomes dup_k.
RenameDup(cols, dup) ==
    [i \in 1..Len(cols) |->
        IF cols[i] # dup THEN cols[i]
        ELSE LET k == Cardinality({j \in 1..(i - 1) : cols[j] = dup})
             IN IF k = 0 THEN dup ELSE dup \o "_" \o Tok(k)]

RECURSIVE RenameAll(_, _)
RenameAll(cols, dups) ==
    IF dups = <<>> THEN cols ELSE RenameAll(RenameDup(cols, Head(dups)), Tail(dups))

ensure_unique_columns(T) ==
    [cols |-> RenameAll(T.cols, DupNames(T.cols, 1, {})), rows |-> T.rows]

\* modules/arf_extraction.py
\* One line of ARF.DAT: the row it yields (<<>> for none), or an exception.
ArfLine(parts) ==
    IF parts = <<>> THEN [raised |-> FALSE, rows |-> <<>>]
    ELSE IF parts[1] = "T"
         THEN IF Len(parts) < 2 \/ ~isdigit(parts[2]) THEN [raised |-> TRUE, rows |-> <<>>]
              ELSE [raised |-> FALSE, rows |-> << <<IntOf(parts[2]) - 1, 10>> >>]
         ELSE IF ~isdigit(parts[1]) THEN [raised |-> FALSE, rows |-> <<>>]
         ELSE IF Len(parts) < 2 THEN [raised |-> TRUE, rows |-> <<>>]
         ELSE IF ~isdigit(parts[2]) THEN [raised |-> FALSE, rows |-> <<>>]
         ELSE [raised |-> FALSE, rows |-> << <<IntOf(parts[1]) - 1, IntOf(parts[2])>> >>]

RECURSIVE ArfRows(_, _)
ArfRows(lines, i) ==
    IF i > Len(lines) THEN <<>> ELSE ArfLine(lines[i]).rows \o ArfRows(lines, i + 1)

\* Factors are in tenths: 10 is the factor 1.0, "8" the factor 0.8.
extract_area_reduction_factors(lines) ==
    IF \E i \in 1..Len(lines) : ArfLine(lines[i]).raised THEN Raised
    ELSE Returned([cols |-> <<"grid_id", "arf">>, rows |-> ArfRows(lines, 1)])

merge_arf_with_model_data(model_data, arf_df) ==
    fillna(pd_merge_left(model_data, arf_df, "_x", "_y"), "arf", 10)

\* ------------------------------------------------------- input directories
\* A file of the project directory.
Absent == [exists |-> FALSE, lines |-> <<>>]
Present(lines) == [exists |-> TRUE, lines |-> lines]

\* Identifier columns of the generated files: the dense run 1..n, single
\* identifiers, and pairs (repeated, reversed, or not in the base).
Prefix(n) == [i \in 1..n |-> i]
Full == Prefix(MaxId)
IdSeqs == {Prefix(n) : n \in 0..MaxId}
          \cup {<<a>> : a \in 1..MaxId}
          \cup {<<a, b>> : a \in 1..MaxId, b \in 1..MaxId}

\* The attribute value written on the i-th data line.
ValTok(i) == Tok(4 + i)

HeaderLine == <<"H">>

\* id x y value
GridLines(ids) == [i \in 1..Len(ids) |-> <<Tok(ids[i]), Tok(ids[i]), Tok(ids[i]), ValTok(i)>>]

\* MANNINGS_N.DAT: id value
ManningsLines(ids) == [i \in 1..Len(ids) |-> <<Tok(ids[i]), ValTok(i)>>]

\* TOPO.DAT: x y value
TopoLines(ids) == [i \in 1..Len(ids) |-> <<Tok(ids[i]), Tok(ids[i]), ValTok(i)>>]

\* INFIL_DEPTH.OUT: a header line, then x y depth stop
InfilDepthLines(ids) ==
    <<HeaderLine>> \o [i \in 1..Len(ids) |-> <<Tok(ids[i]), Tok(ids[i]), ValTok(i), ValTok(i)>>]

\* MAXQHYD.OUT: four header lines, then nine columns; a leading line with
\* identifier 0 is a row the filter drops.
MaxqhydLines(ids) ==
    <<HeaderLine, HeaderLine, HeaderLine, HeaderLine,
      <<"0", "0", "0", "0", "0", "0", "0", "9", "9">> >>
    \o [i \in 1..Len(ids) |-> <<Tok(ids[i]), "0", "0", "0", "0", "0", "0", ValTok(i), "1">>]

\* RAIN.DAT: two header lines (the multiplier m leads the second), two
\* R lines, a blank line, then id fraction and a closing blank line; bad
\* puts a non-numeric fraction on the first data line.
RainLines(ids, bad, m) ==
    << <<"0", "0">>, <<m, "0", "0", "0">>, <<"R", "0", "0">>, <<"R", "1", "1">>, <<>> >>
    \o [i \in 1..Len(ids) |-> <<Tok(ids[i]), IF bad /\ i = 1 THEN "abc" ELSE ValTok(i)>>]
    \o << <<>> >>

\* SUPER.OUT: seven header lines, a three-field line, then five fields.
SuperLines(ids) ==
    <<HeaderLine, HeaderLine, HeaderLine, HeaderLine, HeaderLine, HeaderLine, HeaderLine,
      <<"1", "2", "3">> >>
    \o [i \in 1..Len(ids) |-> <<Tok(ids[i]), ValTok(i), ValTok(i), ValTok(i), "1">>]

\* INFIL.DAT: three header lines, a line that is no F line, then F lines;
\* shape "blank" ends with a blank line, "short" has F lines of six fields.
InfilLines(ids, shape) ==
    <<HeaderLine, HeaderLine, HeaderLine, <<"R", "1">> >>
    \o [i \in 1..Len(ids) |->
          IF shape = "short"
          THEN <<"F", Tok(ids[i]), ValTok(i), "1", "1", "1">>
          ELSE <<"F", Tok(ids[i]), ValTok(i), "1", "1", "1", "1", "1">>]
    \o (IF shape = "blank" THEN << <<>> >> ELSE <<>>)

\* FPXSEC.DAT: a line that is no X line, then one cross section per
\* listed cell (X, flow direction, number of cells, cell).
FpxsecLines(ids) ==
    << <<"P", "1">> >> \o [i \in 1..Len(ids) |-> <<"X", "1", "1", Tok(ids[i])>>]

\* FPXSEC.DAT with a cross section of two cells, a line that is no X line,
\* and a cross section that lists a token that is no number before its cell.
FpxsecTwoCells ==
    << <<"X", "1", "2", "1", "2">>, <<"P", "1">>, <<"X", "1", "1", "a", "1">> >>

\* The generated contents of the file called name.
Contents(name) ==
    CASE name = "MANNINGS_N.DAT"  -> {Present(ManningsLines(ids)) : ids \in IdSeqs}
      [] name = "TOPO.DAT"        -> {Present(TopoLines(ids)) : ids \in IdSeqs}
      [] name = "INFIL_DEPTH.OUT" -> {Present(InfilDepthLines(ids)) : ids \in IdSeqs}
      [] name = "MAXQHYD.OUT"     -> {Present(MaxqhydLines(ids)) : ids \in IdSeqs}
      [] name = "RAIN.DAT"        -> {Present(RainLines(ids, bad, m)) : ids \in IdSeqs, bad \in BOOLEAN, m \in {"2", "3"}}
      [] name = "SUPER.OUT"       -> {Present(SuperLines(ids)) : ids \in IdSeqs}
      [] name = "INFIL.DAT"       -> {Present(InfilLines(ids, "ok")) : ids \in IdSeqs}
                                     \cup {Present(InfilLines(Full, sh)) : sh \in {"blank", "short"}}
      [] name = "FPXSEC.DAT"      -> {Present(FpxsecLines(ids)) : ids \in IdSeqs}
                                     \cup {Present(FpxsecTwoCells)}
      [] OTHER                    -> {Present(GridLines(ids)) : ids \in IdSeqs}

\* Contents used when two files besides DEPTH.OUT are present: every cell
\* once, or the first cell twice.
PairSeqs == {Full, <<1, 1>>}

PairContents(name) ==
    CASE name = "MANNINGS_N.DAT" -> {Present(ManningsLines(ids)) : ids \in PairSeqs}
      [] name = "RAIN.DAT"       -> {Present(RainLines(ids, FALSE, "2")) : ids \in PairSeqs}
      [] name = "SUPER.OUT"      -> {Present(SuperLines(ids)) : ids \in PairSeqs}
      [] name = "INFIL.DAT"      -> {Present(InfilLines(ids, "ok")) : ids \in PairSeqs}
      [] name = "FPXSEC.DAT"     -> {Present(FpxsecLines(ids)) : ids \in PairSeqs}
      [] OTHER                   -> {Present(GridLines(ids)) : ids \in PairSeqs}

PairNames == {"MANNINGS_N.DAT", "VELFP.OUT", "RAIN.DAT", "SUPER.OUT", "INFIL.DAT", "FPXSEC.DAT"}

OnlyBase(b) == [n \in AllNames |-> IF n = "DEPTH.OUT" THEN b ELSE Absent]

\* Scenario A of the specification: DEPTH.OUT and MANNINGS_N.DAT with the
\* raw identifiers 1, 2, 3.
ScenarioA ==
    [OnlyBase(Present(GridLines(<<1, 2, 3>>))) EXCEPT
        !["MANNINGS_N.DAT"] = Present(ManningsLines(<<1, 2, 3>>))]

\* DEPTH.OUT with the cells 1..n and one more file, of any generated content.
SingleDirs ==
    UNION {{[OnlyBase(Present(GridLines(Prefix(n)))) EXCEPT ![f] = c] :
               n \in 1..MaxId, c \in Contents(f)} : f \in AllNames \ {"DEPTH.OUT"}}

\* DEPTH.OUT with every cell and two more files.
PairDirs ==
    UNION {{[OnlyBase(Present(GridLines(Full))) EXCEPT ![p[1]] = c1, ![p[2]] = c2] :
               c1 \in PairContents(p[1]), c2 \in PairContents(p[2])} :
           p \in {q \in PairNames \X PairNames : q[1] # q[2]}}

\* Scenario B of the specification: a base of three cells (with the cross
\* sections process_flo2d reads) for the ARF file that lists raw cell 1.
ScenarioB ==
    [OnlyBase(Present(GridLines(<<1, 2, 3>>))) EXCEPT
        !["FPXSEC.DAT"] = Present(FpxsecLines(<<1>>))]

\* DEPTH.OUT absent or without data, next to one other file.
NoBaseDirs ==
    UNION {{[OnlyBase(b) EXCEPT ![f] = c] :
               b \in {Absent, Present(<<>>)},
               c \in PairContents(f) \cup (IF f = "INFIL.DAT"
                                           THEN {Present(InfilLines(Full, "blank"))}
                                           ELSE {})} : f \in PairNames}

\* The project directories the model starts from.
Dirs ==
    {OnlyBase(b) : b \in {Absent, Present(<<>>)} \cup {Present(GridLines(Prefix(n))) : n \in 1..MaxId}}
    \cup SingleDirs \cup PairDirs \cup NoBaseDirs \cup {ScenarioA, ScenarioB}

\* ARF.DAT as process_flo2d finds it: absent, or T lines and factor lines.
ArfFiles ==
    {Absent,
     Present(<< <<"1", "8">> >>),
     Present(<< <<"T", "1">>, <<"2", "8">>, <<"2", "5">> >>),
     Present(<< <<"T">> >>)}

\* ------------------------------------------------------------------- state
VARIABLES
    dir,          \* the project directory: file name -> [exists, lines]
    pc,           \* where the main thread is
    running,      \* the process_file calls executing in the pool
    next_task,    \* index in Files of the next queued work item
    results,      \* the result of each future, Pending until it resolves
    data_frames,  \* [keys, frames]: the dict data_frames
    fpxsec_read,  \* the return value of read_fpxsec_data_as_df
    reports,      \* what verify_grid_ids printed
    merge_state,  \* [result, total_rows] of controlled_merge
    merge_i,      \* position of controlled_merge's loop in data_frames
    main_df,      \* main_df of extractModelDataToDF
    joins,        \* the joins performed so far, with their row counts
    raised_at,    \* where an uncaught exception left the run ("" for none)
    model_data,   \* model_data of process_flo2d
    arf_file,     \* ARF.DAT as process_flo2d found it
    raster_columns, \* raster_columns of step 14 of process_flo2d
    unique_call,  \* a call of ensure_unique_columns on its own: [cols, out, done]
    extras,       \* what steps 5 to 15 find: [points, evac, time, present, failing]
    geo_df,       \* geo_df of process_flo2d
    super_geo_df,         \* super_geo_df of step 6
    evacuatedfp_geo_df,   \* evacuatedfp_geo_df of the EVACUATEDFP.OUT step
    time_out_geo_df,      \* time_out_geo_df of the TIME.OUT step
    created,      \* the artifacts written so far, in order
    logged,       \* the artifacts whose failure logger.error reported, in order
    batch         \* batch_process_flo2d: [file_paths, i, results, returned]

vars == <<dir, pc, running, next_task, results, data_frames, fpxsec_read, reports,
          merge_state, merge_i, main_df, joins, raised_at, model_data, arf_file,
          raster_columns, unique_call, extras, geo_df, super_geo_df, evacuatedfp_geo_df,
          time_out_geo_df, created, logged, batch>>

\* The variables of steps 4 to 15 of process_flo2d.
output_vars == <<extras, geo_df, super_geo_df, evacuatedfp_geo_df, time_out_geo_df,
                 created, logged>>

\* Nothing found yet by steps 5 to 15.
NoExtras == [points |-> FALSE, evac |-> Absent, time |-> Absent, present |-> {},
             failing |-> {}]

\* process_flo2d called on its own, not by batch_process_flo2d.
NoBatch == [file_paths |-> <<>>, i |-> 0, results |-> <<>>, returned |-> FALSE]

\* No call of ensure_unique_columns outside extractModelDataToDF.
NoCall == [cols |-> <<>>, out |-> <<>>, done |-> FALSE]

Pending == [hasDf |-> FALSE, df |-> NoTable, error |-> "pending"]

Init ==
    /\ dir \in Dirs
    /\ pc = "start"
    /\ running = {}
    /\ next_task = 1
    /\ results = [n \in PoolNames |-> Pending]
    /\ data_frames = [keys |-> <<>>, frames |-> NoFrames]
    /\ fpxsec_read = [done |-> FALSE, df |-> NoTable]
    /\ reports = {}
    /\ merge_state = [result |-> NoTable, total_rows |-> 0]
    /\ merge_i = 0
    /\ main_df = NoTable
    /\ joins = <<>>
    /\ raised_at = ""
    /\ model_data = NoTable
    /\ arf_file = Absent
    /\ raster_columns = <<>>
    /\ unique_call = NoCall
    /\ extras = NoExtras
    /\ geo_df = NoTable
    /\ super_geo_df = NoTable
    /\ evacuatedfp_geo_df = NoTable
    /\ time_out_geo_df = NoTable
    /\ created = <<>>
    /\ logged = <<>>
    /\ batch = NoBatch

Min2(a, b) == IF a <= b THEN a ELSE b

\* What a join leaves in the history: the row counts before and after,
\* whether the row-count warning was printed, the keys on both sides, and
\* the positions of the columns the join appended, and the column names of
\* the two tables and of the result.
JoinRecord(where, name, left, right, out, warned) ==
    [where |-> where, name |-> name,
     before |-> Len(left.rows), after |-> Len(out.rows), warned |-> warned,
     left_ids |-> Column(left, "grid_id"), right_ids |-> Column(right, "grid_id"),
     cols_from |-> Len(left.cols) + 1, cols_to |-> Len(out.cols),
     left_cols |-> left.cols, right_cols |-> right.cols, out_cols |-> out.cols]

\* process_flo2d calls extractModelDataToDF, which submits one process_file
\* call per entry of files; the pool starts the first MaxWorkers of them.
StartExtraction ==
    /\ pc = "start"
    /\ pc' = "pool"
    /\ running' = {Files[i] : i \in 1..Min2(MaxWorkers, Len(Files))}
    /\ next_task' = Min2(MaxWorkers, Len(Files)) + 1
    /\ UNCHANGED <<dir, results, data_frames, fpxsec_read, reports, merge_state, merge_i,
                   main_df, joins, raised_at, model_data, arf_file>>
    /\ UNCHANGED <<raster_columns, unique_call>>
    /\ UNCHANGED <<output_vars, batch>>

\* A process_file call returns; as_completed yields its future and the loop
\* body files the result; the worker takes the next queued call.
Finish(name) ==
    /\ name \in running
    /\ results' = [results EXCEPT ![name] = process_file(name, dir[name])]
    /\ data_frames' = Collect(data_frames, name, process_file(name, dir[name]))
    /\ running' = (running \ {name})
                  \cup (IF next_task <= Len(Files) THEN {Files[next_task]} ELSE {})
    /\ next_task' = IF next_task <= Len(Files) THEN next_task + 1 ELSE next_task
    /\ UNCHANGED <<dir, pc, fpxsec_read, reports, merge_state, merge_i, main_df, joins,
                   raised_at, model_data, arf_file>>
    /\ UNCHANGED <<raster_columns, unique_call>>
    /\ UNCHANGED <<output_vars, batch>>

\* The as_completed loop has yielded every future and the with block has
\* shut the pool down.
PoolDrained_base == results["DEPTH.OUT"] # Pending

PoolDrained == running = {} /\ next_task > Len(Files)

Raise(where) ==
    /\ pc' = "raised"
    /\ raised_at' = where

\* "Process MAXQHYD.OUT separately".
AfterPool ==
    /\ pc = "pool"
    /\ PoolDrained
    /\ IF ProcessMaxqhyd(data_frames).raised
       THEN Raise("MAXQHYD.OUT") /\ UNCHANGED data_frames
       ELSE /\ pc' = "infil"
            /\ data_frames' = ProcessMaxqhyd(data_frames).D
            /\ UNCHANGED raised_at
    /\ UNCHANGED <<dir, running, next_task, results, fpxsec_read, reports, merge_state,
                   merge_i, main_df, joins, model_data, arf_file>>
    /\ UNCHANGED <<raster_columns, unique_call>>
    /\ UNCHANGED <<output_vars, batch>>

\* "Include INFIL.DAT".
IncludeInfil ==
    /\ pc = "infil"
    /\ IF ~dir["INFIL.DAT"].exists
       THEN pc' = "fpxsec" /\ UNCHANGED <<data_frames, raised_at>>
       ELSE IF read_infil_dat(dir["INFIL.DAT"].lines).raised
            THEN Raise("INFIL.DAT") /\ UNCHANGED data_frames
            ELSE /\ pc' = "fpxsec"
                 /\ data_frames' = SetFrame(data_frames, "INFIL.DAT",
                                            read_infil_dat(dir["INFIL.DAT"].lines).df)
                 /\ UNCHANGED raised_at
    /\ UNCHANGED <<dir, running, next_task, results, fpxsec_read, reports, merge_state,
                   merge_i, main_df, joins, model_data, arf_file>>
    /\ UNCHANGED <<raster_columns, unique_call>>
    /\ UNCHANGED <<output_vars, batch>>

\* "... and FPXSEC.DAT".
IncludeFpxsec ==
    /\ pc = "fpxsec"
    /\ pc' = "verify"
    /\ fpxsec_read' = [done |-> TRUE, df |-> read_fpxsec_data_as_df(dir["FPXSEC.DAT"])]
    /\ data_frames' = IF Len(read_fpxsec_data_as_df(dir["FPXSEC.DAT"]).cols) > 0
                      THEN SetFrame(data_frames, "FPXSEC.DAT",
                                    read_fpxsec_data_as_df(dir["FPXSEC.DAT"]))
                      ELSE data_frames
    /\ UNCHANGED <<dir, running, next_task, results, reports, merge_state, merge_i, main_df,
                   joins, raised_at, model_data, arf_file>>
    /\ UNCHANGED <<raster_columns, unique_call>>
    /\ UNCHANGED <<output_vars, batch>>

VerifyGridIds ==
    /\ pc = "verify"
    /\ pc' = "base"
    /\ reports' = verify_grid_ids(data_frames)
    /\ UNCHANGED <<dir, running, next_task, results, data_frames, fpxsec_read, merge_state,
                   merge_i, main_df, joins, raised_at, model_data, arf_file>>
    /\ UNCHANGED <<raster_columns, unique_call>>
    /\ UNCHANGED <<output_vars, batch>>

\* main_df = data_frames['DEPTH.OUT'] (KeyError without the key) and the
\* entry of controlled_merge.
SelectBase ==
    /\ pc = "base"
    /\ IF "DEPTH.OUT" \notin Range(data_frames.keys)
       THEN Raise("DEPTH.OUT") /\ UNCHANGED <<main_df, merge_state, merge_i>>
       ELSE /\ pc' = "merge"
            /\ main_df' = data_frames.frames["DEPTH.OUT"]
            /\ merge_state' = [result |-> data_frames.frames["DEPTH.OUT"],
                               total_rows |-> Len(data_frames.frames["DEPTH.OUT"].rows)]
            /\ merge_i' = 1
            /\ UNCHANGED raised_at
    /\ UNCHANGED <<dir, running, next_task, results, data_frames, fpxsec_read, reports,
                   joins, model_data, arf_file>>
    /\ UNCHANGED <<raster_columns, unique_call>>
    /\ UNCHANGED <<output_vars, batch>>

\* One iteration of controlled_merge's loop over data_frames.items().
MergeStep ==
    /\ pc = "merge"
    /\ merge_i <= Len(data_frames.keys)
    /\ LET name == data_frames.keys[merge_i]
           df == data_frames.frames[name]
           m == MergeOne(merge_state, name, df)
       IN IF m.kind = "raised"
          THEN Raise(name) /\ UNCHANGED <<merge_state, merge_i, joins>>
          ELSE /\ merge_state' = [result |-> m.result, total_rows |-> m.total_rows]
               /\ merge_i' = merge_i + 1
               /\ joins' = IF m.kind = "joined"
                           THEN Append(joins, JoinRecord("controlled_merge", name,
                                           merge_state.result, df, m.result, m.warned))
                           ELSE joins
               /\ UNCHANGED <<pc, raised_at>>
    /\ UNCHANGED <<dir, running, next_task, results, data_frames, fpxsec_read, reports,
                   main_df, model_data, arf_file>>
    /\ UNCHANGED <<raster_columns, unique_call>>
    /\ UNCHANGED <<output_vars, batch>>

\* controlled_merge returns.
MergeReturn ==
    /\ pc = "merge"
    /\ merge_i > Len(data_frames.keys)
    /\ pc' = "super"
    /\ main_df' = merge_state.result
    /\ UNCHANGED <<dir, running, next_task, results, data_frames, fpxsec_read, reports,
                   merge_state, merge_i, joins, raised_at, model_data, arf_file>>
    /\ UNCHANGED <<raster_columns, unique_call>>
    /\ UNCHANGED <<output_vars, batch>>

\* "Ensure SUPER.OUT data is included in the merge".
SuperJoin ==
    /\ pc = "super"
    /\ pc' = "unique"
    /\ IF "SUPER.OUT" \in Range(data_frames.keys)
       THEN /\ main_df' = super_join(main_df, data_frames.frames["SUPER.OUT"])
            /\ joins' = Append(joins, JoinRecord("extractModelDataToDF", "SUPER.OUT", main_df,
                                  data_frames.frames["SUPER.OUT"],
                                  super_join(main_df, data_frames.frames["SUPER.OUT"]), FALSE))
       ELSE UNCHANGED <<main_df, joins>>
    /\ UNCHANGED <<dir, running, next_task, results, data_frames, fpxsec_read, reports,
                   merge_state, merge_i, raised_at, model_data, arf_file>>
    /\ UNCHANGED <<raster_columns, unique_call>>
    /\ UNCHANGED <<output_vars, batch>>

\* ensure_unique_columns, and extractModelDataToDF returns to process_flo2d.
ReturnTable ==
    /\ pc = "unique"
    /\ pc' = "returned"
    /\ main_df' = ensure_unique_columns(main_df)
    /\ model_data' = ensure_unique_columns(main_df)
    /\ UNCHANGED <<dir, running, next_task, results, data_frames, fpxsec_read, reports,
                   merge_state, merge_i, joins, raised_at, arf_file>>
    /\ UNCHANGED <<raster_columns, unique_call>>
    /\ UNCHANGED <<output_vars, batch>>

\* fpxsec_grids = model_data[pd.notna(model_data['fpxsec'])]: KeyError
\* when the table has no fpxsec column.
FpxsecGrids ==
    /\ pc = "returned"
    /\ IF HasCol(model_data, "fpxsec")
       THEN pc' = "arf" /\ UNCHANGED raised_at
       ELSE Raise("fpxsec")
    /\ UNCHANGED <<dir, running, next_task, results, data_frames, fpxsec_read, reports,
                   merge_state, merge_i, main_df, joins, model_data, arf_file>>
    /\ UNCHANGED <<raster_columns, unique_call>>
    /\ UNCHANGED <<output_vars, batch>>

\* Step 3 of process_flo2d: the ARF merge, when ARF.DAT exists.
ArfStep_materialize(f) ==
    /\ pc = "arf"
    /\ arf_file' = f
    /\ pc' = "outputs"
    /\ model_data' = merge_arf_with_model_data(
                         model_data,
                         IF f.exists /\ ~extract_area_reduction_factors(f.lines).raised
                         THEN extract_area_reduction_factors(f.lines).df
                         ELSE [cols |-> <<"grid_id", "arf">>, rows |-> <<>>])
    /\ UNCHANGED <<dir, running, next_task, results, data_frames, fpxsec_read, reports,
                   merge_state, merge_i, main_df, joins, raised_at, raster_columns,
                   unique_call>>
    /\ UNCHANGED <<output_vars, batch>>

ArfStep(f) ==
    /\ pc = "arf"
    /\ arf_file' = f
    /\ IF ~f.exists
       THEN pc' = "outputs" /\ UNCHANGED <<model_data, joins, raised_at>>
       ELSE IF extract_area_reduction_factors(f.lines).raised
            THEN Raise("ARF.DAT") /\ UNCHANGED <<model_data, joins>>
            ELSE /\ pc' = "outputs"
                 /\ model_data' = merge_arf_with_model_data(
                                      model_data, extract_area_reduction_factors(f.lines).df)
                 /\ joins' = Append(joins, JoinRecord("merge_arf_with_model_data", "ARF.DAT",
                                       model_data, extract_area_reduction_factors(f.lines).df,
                                       merge_arf_with_model_data(
                                           model_data, extract_area_reduction_factors(f.lines).df),
                                       FALSE))
                 /\ UNCHANGED raised_at
    /\ UNCHANGED <<dir, running, next_task, results, data_frames, fpxsec_read, reports,
                   merge_state, merge_i, main_df>>
    /\ UNCHANGED <<raster_columns, unique_call>>
    /\ UNCHANGED <<output_vars, batch>>

\* Step 14 of process_flo2d: the columns a raster is made of.
desired_columns ==
    <<"depth_max", "xksat", "psif", "dtheta", "abstrinf", "rtimpf", "soil_depth",
      "velocity", "q_max", "wse_max", "infil_depth", "infil_stop", "time_of_oneft",
      "time_of_twoft", "time_to_peak", "mannings_n", "topo", "final_velocity",
      "final_depth", "rain_depth", "arf">>

\* ------------------------------------------- steps 4 to 15 of process_flo2d
\* Point(xy) of convertToGeoDataFrame: the point (x, y) is written 10 x + y.
Point(x, y) == IF x = NaN \/ y = NaN THEN NaN ELSE 10 * x + y

convertToGeoDataFrame(df) ==
    [cols |-> Append(df.cols, "geometry"),
     rows |-> [i \in 1..Len(df.rows) |->
                 Append(df.rows[i], Point(Column(df, "x")[i], Column(df, "y")[i]))]]

\* calculate_cell_size raises ValueError on a table of fewer than two points.
calculate_cell_size_raises(T) == Len(T.rows) < 2

dropna_keep(T, subset) == T

\* df.dropna(subset=subset)
dropna(T, subset) ==
    [cols |-> T.cols,
     rows |-> SelectSeq(T.rows, LAMBDA r : \A j \in 1..Len(subset) : r[ColIdx(T, subset[j])] # NaN)]

\* df[columns_to_select]
SelectColumns(T, columns_to_select) ==
    [cols |-> columns_to_select,
     rows |-> [i \in 1..Len(T.rows) |->
                 [j \in 1..Len(columns_to_select) |-> T.rows[i][ColIdx(T, columns_to_select[j])]]]]

\* The table of a points layer: the left join of data onto geo_df, the rows
\* without a null in the attributes, the columns grid_id, attributes,
\* geometry. A missing grid_id column in data or a missing attribute after
\* the join is a KeyError.
PointsLayer(gdf, data, attributes) ==
    IF ~HasCol(data, "grid_id") THEN Raised
    ELSE IF \E j \in 1..Len(attributes) :
               ~HasCol(pd_merge_left(gdf, data, "_x", "_y"), attributes[j])
         THEN Raised
    ELSE IF ~HasCol(pd_merge_left(gdf, data, "_x", "_y"), "grid_id") THEN Raised
    ELSE Returned(SelectColumns(dropna(pd_merge_left(gdf, data, "_x", "_y"), attributes),
                                <<"grid_id">> \o attributes \o <<"geometry">>))

\* line.strip().startswith(text), for a line and a text given by their
\* words (the text is written with the spacing the reader expects).
StartsWithWords(line, words) ==
    Len(line) >= Len(words) /\ SubSeq(line, 1, Len(words)) = words

evac_start == <<"ELEMENT", "NUMBER", "OF", "EVACUATIONS">>
time_start == <<"FLOODPLAIN", "NODES", "NUMBER", "OF", "TIMES", "EXCEEDED">>
time_stop == <<"THE", "LAST">>

\* int(parts[0]), int(parts[1]) on a two-field line: ValueError on a token
\* that is no integer.
TwoFieldRow(parts) ==
    IF isdigit(parts[1]) /\ isdigit(parts[2])
    THEN [raised |-> FALSE, rows |-> << <<IntOf(parts[1]), IntOf(parts[2])>> >>]
    ELSE [raised |-> TRUE, rows |-> <<>>]

\* The loop of extract_evacuatedfp_data from line i on.
RECURSIVE EvacScan(_, _, _)
EvacScan(lines, i, extract_data) ==
    IF i > Len(lines) THEN [raised |-> FALSE, rows |-> <<>>]
    ELSE IF StartsWithWords(lines[i], evac_start) THEN EvacScan(lines, i + 1, TRUE)
    ELSE IF extract_data /\ Len(lines[i]) = 2
         THEN IF TwoFieldRow(lines[i]).raised THEN [raised |-> TRUE, rows |-> <<>>]
              ELSE [raised |-> EvacScan(lines, i + 1, extract_data).raised,
                    rows |-> TwoFieldRow(lines[i]).rows
                             \o EvacScan(lines, i + 1, extract_data).rows]
         ELSE EvacScan(lines, i + 1, extract_data)

extract_evacuatedfp_data(lines) ==
    IF EvacScan(lines, 1, FALSE).raised THEN Raised
    ELSE Returned([cols |-> <<"grid_id", "num_evacuations">>,
                   rows |-> EvacScan(lines, 1, FALSE).rows])

\* The loop of extract_time_out_data from line i on.
RECURSIVE TimeScan(_, _, _)
TimeScan(lines, i, extract_data) ==
    IF i > Len(lines) THEN [raised |-> FALSE, rows |-> <<>>]
    ELSE IF StartsWithWords(lines[i], time_start) THEN TimeScan(lines, i + 1, TRUE)
    ELSE IF StartsWithWords(lines[i], time_stop) THEN TimeScan(lines, i + 1, FALSE)
    ELSE IF extract_data /\ Len(lines[i]) = 2
         THEN IF TwoFieldRow(lines[i]).raised THEN [raised |-> TRUE, rows |-> <<>>]
              ELSE [raised |-> TimeScan(lines, i + 1, extract_data).raised,
                    rows |-> TwoFieldRow(lines[i]).rows
                             \o TimeScan(lines, i + 1, extract_data).rows]
         ELSE TimeScan(lines, i + 1, extract_data)

extract_time_out_data(lines) ==
    IF TimeScan(lines, 1, FALSE).raised THEN Raised
    ELSE Returned([cols |-> <<"grid_id", "num_time_decrements">>,
                   rows |-> TimeScan(lines, 1, FALSE).rows])

\* create_fpxsec_shapefile saves a layer when some cross section has a
\* line, that is two or more cells of model_data (HYCROSS.OUT is taken to
\* hold a result for every cross section).
FpxsecLayerNotEmpty(T) ==
    /\ HasCol(T, "fpxsec")
    /\ \E i \in 1..Len(T.rows) : \E k \in 1..Len(T.rows) :
          /\ i # k
          /\ Column(T, "fpxsec")[i] # NaN
          /\ Column(T, "fpxsec")[i] = Column(T, "fpxsec")[k]

\* EVACUATEDFP.OUT: a two-field line of text and a two-field line of
\* numbers before the sentinel, then the section with a blank line and a
\* three-field line.
EvacOk ==
    Present(<< <<"EVACUATED", "CELLS">>, <<"2", "9">>, evac_start, <<>>,
               <<"1", "3">>, <<"2", "4", "x">>, <<"2", "5">> >>)

\* EVACUATEDFP.OUT with the sentinel twice and cell 1 in both sections.
EvacRepeat == Present(<<evac_start, <<"1", "3">>, evac_start, <<"1", "4">> >>)

\* EVACUATEDFP.OUT with a two-field line of text inside the section.
EvacText == Present(<<evac_start, <<"1", "3">>, <<"TOTAL", "7">> >>)

EvacFiles == {Absent, EvacOk, EvacRepeat, EvacText}

\* TIME.OUT: a two-field line before the sentinel, a section, the stop
\* sentinel, a two-field line outside the sections, and a second section.
TimeOk ==
    Present(<< <<"1", "1">>, time_start, <<"1", "3">>, <<"THE", "LAST", "9">>,
               <<"2", "2">>, time_start, <<"2", "6">> >>)

\* TIME.OUT with a two-field line of text inside the section.
TimeText == Present(<<time_start, <<"1", "x">> >>)

TimeFiles == {Absent, TimeOk, TimeText}

\* The input files of steps 7 to 12 besides FPXSEC.DAT and RAIN.DAT.
OptionalInputs ==
    {"INFLOW.DAT", "HYCROSS.OUT", "HYSTRUC.DAT", "SWMM.inp", "SWMMQIN.OUT", "SWMMFLORT.DAT"}

\* The artifacts of steps 5 to 12, and two of the rasters of step 14.
Artifacts ==
    {"flow_direction", "super_out_points", "evacuatedfp_out_points", "time_out_points",
     "inflow_data", "fpxsec_layer", "hycross", "hydraulic_structures", "hydrostruct",
     "hystruc_rating_curves_xlsx", "hystruc_rating_curves_pdf", "rain", "swmm_inlets",
     "swmm", "swmm_rating_tables", "depth_max", "arf"}

\* What steps 5 to 15 find in the project directory and which writes fail:
\* each section file on its own, and every optional input present with no
\* write failing or with the write of one artifact failing.
Extras ==
    {[points |-> FALSE, evac |-> e, time |-> Absent, present |-> {}, failing |-> {}] :
        e \in EvacFiles}
    \cup {[points |-> FALSE, evac |-> Absent, time |-> t, present |-> {}, failing |-> {}] :
             t \in TimeFiles}
    \cup {[points |-> TRUE, evac |-> EvacOk, time |-> TimeOk, present |-> OptionalInputs,
           failing |-> f] : f \in {{}} \cup {{a} : a \in Artifacts}}

\* The variables steps 4 to 15 leave alone.
extraction_vars == <<dir, running, next_task, results, data_frames, fpxsec_read, reports,
                     merge_state, merge_i, main_df, joins, model_data, arf_file,
                     unique_call, batch>>

\* A write inside try/except Exception: the artifact is created, or its
\* failure is logged, and the step goes on.
TryWrite(name, next) ==
    /\ IF name \in extras.failing
       THEN logged' = Append(logged, name) /\ UNCHANGED created
       ELSE created' = Append(created, name) /\ UNCHANGED logged
    /\ pc' = next
    /\ UNCHANGED raised_at

\* The position in names of the first artifact whose write fails, 0 for none.
FirstFailure(names) ==
    IF \E i \in 1..Len(names) : names[i] \in extras.failing
    THEN CHOOSE i \in 1..Len(names) :
            /\ names[i] \in extras.failing
            /\ \A j \in 1..(i - 1) : names[j] \notin extras.failing
    ELSE 0

\* Writes with no try/except in process_flo2d, in order: the first failure
\* leaves process_flo2d as an exception; relogged are the artifacts whose
\* writer logs the error before raising it again.
Write(names, relogged, next) ==
    IF FirstFailure(names) = 0
    THEN /\ created' = created \o names
         /\ pc' = next
         /\ UNCHANGED <<logged, raised_at>>
    ELSE /\ created' = created \o SubSeq(names, 1, FirstFailure(names) - 1)
         /\ logged' = IF names[FirstFailure(names)] \in relogged
                      THEN Append(logged, names[FirstFailure(names)])
                      ELSE logged
         /\ Raise(names[FirstFailure(names)])

\* Step 4: model_data becomes geo_df; what the later steps find in the
\* directory is fixed here.
ConvertToGeo ==
    /\ pc = "outputs"
    /\ \E e \in Extras : extras' = e
    /\ IF HasCol(model_data, "x") /\ HasCol(model_data, "y")
       THEN /\ geo_df' = convertToGeoDataFrame(model_data)
            /\ pc' = "points"
            /\ UNCHANGED raised_at
       ELSE Raise("geo_df") /\ UNCHANGED geo_df
    /\ UNCHANGED <<extraction_vars, raster_columns, super_geo_df, evacuatedfp_geo_df,
                   time_out_geo_df, created, logged>>

\* Step 5: the FLO-2D points GeoPackage.
FlowDirectionPoints ==
    /\ pc = "points"
    /\ IF ~extras.points
       THEN pc' = "super_points" /\ UNCHANGED <<created, logged, raised_at>>
       ELSE IF ~HasCol(geo_df, "flow_direction")
            THEN /\ logged' = Append(logged, "flow_direction")
                 /\ pc' = "super_points"
                 /\ UNCHANGED <<created, raised_at>>
            ELSE TryWrite("flow_direction", "super_points")
    /\ UNCHANGED <<extraction_vars, raster_columns, extras, geo_df, super_geo_df,
                   evacuatedfp_geo_df, time_out_geo_df>>

\* Step 6: the SUPER.OUT points layer.
SuperOutPoints ==
    /\ pc = "super_points"
    /\ IF ~dir["SUPER.OUT"].exists
       THEN pc' = "evac" /\ UNCHANGED <<super_geo_df, created, logged, raised_at>>
       ELSE IF extract_super_data(dir["SUPER.OUT"].lines).raised
            THEN Raise("SUPER.OUT") /\ UNCHANGED <<super_geo_df, created, logged>>
            ELSE IF PointsLayer(geo_df, extract_super_data(dir["SUPER.OUT"].lines).df,
                                Tail(super_columns)).raised
                 THEN Raise("SUPER.OUT") /\ UNCHANGED <<super_geo_df, created, logged>>
                 ELSE /\ super_geo_df' =
                            PointsLayer(geo_df, extract_super_data(dir["SUPER.OUT"].lines).df,
                                        Tail(super_columns)).df
                      /\ TryWrite("super_out_points", "evac")
    /\ UNCHANGED <<extraction_vars, raster_columns, extras, geo_df, evacuatedfp_geo_df,
                   time_out_geo_df>>

\* "New Step": the EVACUATEDFP.OUT points layer.
EvacuatedfpPoints ==
    /\ pc = "evac"
    /\ IF ~extras.evac.exists
       THEN pc' = "time" /\ UNCHANGED <<evacuatedfp_geo_df, created, logged, raised_at>>
       ELSE IF extract_evacuatedfp_data(extras.evac.lines).raised
            THEN Raise("EVACUATEDFP.OUT") /\ UNCHANGED <<evacuatedfp_geo_df, created, logged>>
            ELSE IF PointsLayer(geo_df, extract_evacuatedfp_data(extras.evac.lines).df,
                                <<"num_evacuations">>).raised
                 THEN Raise("EVACUATEDFP.OUT")
                      /\ UNCHANGED <<evacuatedfp_geo_df, created, logged>>
                 ELSE /\ evacuatedfp_geo_df' =
                            PointsLayer(geo_df, extract_evacuatedfp_data(extras.evac.lines).df,
                                        <<"num_evacuations">>).df
                      /\ TryWrite("evacuatedfp_out_points", "time")
    /\ UNCHANGED <<extraction_vars, raster_columns, extras, geo_df, super_geo_df,
                   time_out_geo_df>>

\* "New Step": the TIME.OUT points layer.
TimeOutPoints ==
    /\ pc = "time"
    /\ IF ~extras.time.exists
       THEN pc' = "inflow" /\ UNCHANGED <<time_out_geo_df, created, logged, raised_at>>
       ELSE IF extract_time_out_data(extras.time.lines).raised
            THEN Raise("TIME.OUT") /\ UNCHANGED <<time_out_geo_df, created, logged>>
            ELSE IF PointsLayer(geo_df, extract_time_out_data(extras.time.lines).df,
                                <<"num_time_decrements">>).raised
                 THEN Raise("TIME.OUT") /\ UNCHANGED <<time_out_geo_df, created, logged>>
                 ELSE /\ time_out_geo_df' =
                            PointsLayer(geo_df, extract_time_out_data(extras.time.lines).df,
                                        <<"num_time_decrements">>).df
                      /\ TryWrite("time_out_points", "inflow")
    /\ UNCHANGED <<extraction_vars, raster_columns, extras, geo_df, super_geo_df,
                   evacuatedfp_geo_df>>

\* Step 7: the inflow spreadsheet.
InflowData ==
    /\ pc = "inflow"
    /\ IF "INFLOW.DAT" \in extras.present
       THEN Write(<<"inflow_data">>, {}, "fpxsec_layer")
       ELSE pc' = "fpxsec_layer" /\ UNCHANGED <<created, logged, raised_at>>
    /\ UNCHANGED <<extraction_vars, raster_columns, extras, geo_df, super_geo_df,
                   evacuatedfp_geo_df, time_out_geo_df>>

\* Step 8: the floodplain cross-section layer (save_geodataframe logs a
\* failure and raises it again) and the HYCROSS spreadsheet.
FloodplainCrossSections ==
    /\ pc = "fpxsec_layer"
    /\ IF dir["FPXSEC.DAT"].exists /\ "HYCROSS.OUT" \in extras.present
       THEN Write((IF FpxsecLayerNotEmpty(model_data) THEN <<"fpxsec_layer">> ELSE <<>>)
                  \o <<"hycross">>, {"fpxsec_layer"}, "hystruc")
       ELSE pc' = "hystruc" /\ UNCHANGED <<created, logged, raised_at>>
    /\ UNCHANGED <<extraction_vars, raster_columns, extras, geo_df, super_geo_df,
                   evacuatedfp_geo_df, time_out_geo_df>>

\* Step 9: the hydraulic-structure layer (create_hystruc_shapefile logs a
\* failure and raises it again), the hydrograph spreadsheet and the rating
\* curves.
HydraulicStructures ==
    /\ pc = "hystruc"
    /\ IF "HYSTRUC.DAT" \in extras.present
       THEN Write(<<"hydraulic_structures", "hydrostruct", "hystruc_rating_curves_xlsx",
                    "hystruc_rating_curves_pdf">>, {"hydraulic_structures"}, "rain")
       ELSE pc' = "rain" /\ UNCHANGED <<created, logged, raised_at>>
    /\ UNCHANGED <<extraction_vars, raster_columns, extras, geo_df, super_geo_df,
                   evacuatedfp_geo_df, time_out_geo_df>>

\* Step 10: the rainfall spreadsheet and plot.
RainfallSpreadsheet ==
    /\ pc = "rain"
    /\ IF dir["RAIN.DAT"].exists
       THEN Write(<<"rain">>, {}, "swmm")
       ELSE pc' = "swmm" /\ UNCHANGED <<created, logged, raised_at>>
    /\ UNCHANGED <<extraction_vars, raster_columns, extras, geo_df, super_geo_df,
                   evacuatedfp_geo_df, time_out_geo_df>>

\* Step 11: the SWMM inlet spreadsheets and the SWMM layers (their
\* save_geodataframe logs a failure and raises it again).
SwmmData ==
    /\ pc = "swmm"
    /\ IF "SWMM.inp" \in extras.present
       THEN Write((IF "SWMMQIN.OUT" \in extras.present THEN <<"swmm_inlets">> ELSE <<>>)
                  \o <<"swmm">>, {"swmm"}, "rating")
       ELSE pc' = "rating" /\ UNCHANGED <<created, logged, raised_at>>
    /\ UNCHANGED <<extraction_vars, raster_columns, extras, geo_df, super_geo_df,
                   evacuatedfp_geo_df, time_out_geo_df>>

\* Step 12: the SWMM rating tables.
SwmmRatingTables ==
    /\ pc = "rating"
    /\ IF "SWMMFLORT.DAT" \in extras.present
       THEN Write(<<"swmm_rating_tables">>, {}, "rasters")
       ELSE pc' = "rasters" /\ UNCHANGED <<created, logged, raised_at>>
    /\ UNCHANGED <<extraction_vars, raster_columns, extras, geo_df, super_geo_df,
                   evacuatedfp_geo_df, time_out_geo_df>>

\* Steps 13 to 15 and the completion message: the cell size, one raster
\* per desired column of model_data, each inside try/except (no style
\* folder is given).
Outputs ==
    /\ pc = "rasters"
    /\ IF calculate_cell_size_raises(geo_df)
       THEN Raise("cell_size") /\ UNCHANGED <<raster_columns, created, logged>>
       ELSE /\ pc' = "completed"
            /\ raster_columns' = SelectSeq(desired_columns, LAMBDA col : HasCol(model_data, col))
            /\ created' = created \o SelectSeq(desired_columns,
                              LAMBDA col : HasCol(model_data, col) /\ col \notin extras.failing)
            /\ logged' = logged \o SelectSeq(desired_columns,
                              LAMBDA col : HasCol(model_data, col) /\ col \in extras.failing)
            /\ UNCHANGED raised_at
    /\ UNCHANGED <<extraction_vars, extras, geo_df, super_geo_df, evacuatedfp_geo_df,
                   time_out_geo_df>>

Next ==
    \/ StartExtraction
    \/ \E name \in PoolNames : Finish(name)
    \/ AfterPool
    \/ IncludeInfil
    \/ IncludeFpxsec
    \/ VerifyGridIds
    \/ SelectBase
    \/ MergeStep
    \/ MergeReturn
    \/ SuperJoin
    \/ ReturnTable
    \/ FpxsecGrids
    \/ \E f \in ArfFiles : ArfStep(f)
    \/ ConvertToGeo
    \/ FlowDirectionPoints
    \/ SuperOutPoints
    \/ EvacuatedfpPoints
    \/ TimeOutPoints
    \/ InflowData
    \/ FloodplainCrossSections
    \/ HydraulicStructures
    \/ RainfallSpreadsheet
    \/ SwmmData
    \/ SwmmRatingTables
    \/ Outputs

Spec == Init /\ [][Next]_vars

\* ================================================================== claims
\* The table of DEPTH.OUT as the merge takes it.
BaseTable == data_frames.frames["DEPTH.OUT"]

JoinsOf(places) == SelectSeq(joins, LAMBDA j : j.where \in places)

NoRepeat(ids) == Cardinality(Range(ids)) = Len(ids)

\* C1: no join of the sequence that builds the merged table (the joins of
\* controlled_merge and the later SUPER.OUT join) changes the row count
\* without the row-count warning being printed for that join.
C1_NoSilentRowChange ==
    \A i \in 1..Len(joins) :
        joins[i].where \in {"controlled_merge", "extractModelDataToDF"}
            => (joins[i].after = joins[i].before \/ joins[i].warned)

\* C2 as stated: joining a table all of whose grid_ids already occur in
\* the merged table never increases the row count (controlled_merge and
\* merge_arf_with_model_data).
C2_NoNewIdsNoGrowth ==
    \A i \in 1..Len(joins) :
        (/\ joins[i].where \in {"controlled_merge", "merge_arf_with_model_data"}
         /\ Range(joins[i].right_ids) \subseteq Range(joins[i].left_ids))
            => joins[i].after <= joins[i].before

\* C2 amended: joining a table all of whose grid_ids already occur in the
\* merged table, and that repeats no grid_id, never increases the row count.
C2_UniqueNoNewIdsNoGrowth ==
    \A i \in 1..Len(joins) :
        (/\ joins[i].where \in {"controlled_merge", "merge_arf_with_model_data"}
         /\ Range(joins[i].right_ids) \subseteq Range(joins[i].left_ids)
         /\ NoRepeat(joins[i].right_ids))
            => joins[i].after <= joins[i].before

\* Witness of C2: controlled_merge has joined a two-row table without
\* repeats or new grid_ids, and so has merge_arf_with_model_data.
C2_Witness ==
    /\ \E i \in 1..Len(joins) :
          /\ joins[i].where = "controlled_merge"
          /\ Len(joins[i].right_ids) >= 2
          /\ NoRepeat(joins[i].right_ids)
          /\ Range(joins[i].right_ids) \subseteq Range(joins[i].left_ids)
    /\ \E i \in 1..Len(joins) :
          /\ joins[i].where = "merge_arf_with_model_data"
          /\ NoRepeat(joins[i].right_ids)
          /\ Range(joins[i].right_ids) \subseteq Range(joins[i].left_ids)

\* The base rows (grid_id, x, y, depth_max) found in the first four columns
\* of a table.
BaseCells(T) == {SubSeq(T.rows[i], 1, 4) : i \in 1..Len(T.rows)}

\* C3: in the table extractModelDataToDF returns, every base grid_id is
\* present, the base columns keep their names and values, and a joined-in
\* column is null exactly on the rows whose grid_id the joined-in table
\* does not contain.
C3_BaseRowsSurvive ==
    pc = "returned" =>
        /\ Range(Column(BaseTable, "grid_id")) \subseteq Range(Column(model_data, "grid_id"))
        /\ SubSeq(model_data.cols, 1, 4) = <<"grid_id", "x", "y", "depth_max">>
        /\ BaseCells(model_data) = BaseCells(BaseTable)
        /\ \A k \in 1..Len(joins) : \A p \in joins[k].cols_from..joins[k].cols_to :
              \A i \in 1..Len(model_data.rows) :
                 (model_data.rows[i][p] = NaN)
                    <=> (model_data.rows[i][1] \notin Range(joins[k].right_ids))

\* The whitespace-delimited grid files read with a declared grid_id column.
GridIdFiles == {"DEPTH.OUT", "MANNINGS_N.DAT", "VELFP.OUT", "MAXWSELEV.OUT", "TIMEONEFT.OUT",
                "TIMETWOFT.OUT", "TIMETOPEAK.OUT", "FINALVEL.OUT", "FINALDEP.OUT"}

\* C4: the table process_file returns for a grid file has one row per line,
\* with grid_id the raw first-column identifier minus 1; and scenario A
\* merges into three rows with grid_id 0, 1, 2 and depth_max and mannings_n
\* set on every row.
C4_ZeroBasedOnce ==
    /\ \A n \in GridIdFiles :
          results[n].hasDf =>
             /\ Len(results[n].df.rows) = Len(dir[n].lines)
             /\ \A i \in 1..Len(dir[n].lines) :
                   Column(results[n].df, "grid_id")[i] = IntOf(dir[n].lines[i][1]) - 1
    /\ (dir = ScenarioA /\ pc = "returned") =>
          /\ Column(model_data, "grid_id") = <<0, 1, 2>>
          /\ \A i \in 1..3 : /\ Column(model_data, "depth_max")[i] # NaN
                             /\ Column(model_data, "mannings_n")[i] # NaN

\* Witness of C4: scenario A has been extracted and merged.
C4_Witness ==
    /\ dir = ScenarioA
    /\ pc = "returned"
    /\ results["MANNINGS_N.DAT"].hasDf
    /\ Len(model_data.rows) = 3

\* What C5 says of the absent files: a not-found result, no entry in
\* data_frames, and no abort on their account.
AbsentFilesOmitted ==
    \A f \in AllNames \ {"DEPTH.OUT"} :
        ~dir[f].exists =>
            /\ (f \in PoolNames /\ results[f] # Pending) => results[f] = NotFound
            /\ f \notin Range(data_frames.keys)
            /\ \A k \in 1..Len(joins) : joins[k].name # f
            /\ pc = "raised" => raised_at # f

C6_MissingFileNonFatal ==
    pc = "raised" =>
        \/ raised_at = "DEPTH.OUT"
        \/ raised_at = "fpxsec" /\ dir["FPXSEC.DAT"].exists
        \/ raised_at = "ARF.DAT" /\ arf_file.exists
        \/ raised_at \in AllNames /\ dir[raised_at].exists

\* C7: no reader returns an empty table for an absent file.
C7_AbsentIsNotEmptyTable ==
    /\ \A n \in PoolNames : (~dir[n].exists /\ results[n] # Pending) => ~results[n].hasDf
    /\ (fpxsec_read.done /\ ~dir["FPXSEC.DAT"].exists) => ~IsEmpty(fpxsec_read.df)

AllResolved == \A n \in PoolNames : results[n] # Pending

\* C8: the join base is not selected and no join is performed before every
\* submitted read has resolved.
C8_Barrier ==
    (pc \in {"merge", "super", "unique", "returned", "arf", "outputs", "completed"}
        \/ joins # <<>> \/ main_df # NoTable)
        => AllResolved

\* The reads resolved in another order than they were declared in.
OutOfOrder(keys) ==
    \E i \in 1..Len(keys) : \E j \in (i + 1)..Len(keys) :
        /\ keys[i] \in PoolNames
        /\ keys[j] \in PoolNames
        /\ FileIdx(keys[i]) > FileIdx(keys[j])

\* Witness of C8: joins were performed after reads that resolved out of
\* declaration order.
C8_Witness ==
    /\ Len(joins) >= 2
    /\ AllResolved
    /\ OutOfOrder(data_frames.keys)

\* C9: controlled_merge joins the tables of the files mapping in the order
\* of their declaration.
C9_DeclaredFoldOrder ==
    \A i \in 1..Len(joins) : \A j \in (i + 1)..Len(joins) :
        (/\ joins[i].where = "controlled_merge"
         /\ joins[j].where = "controlled_merge"
         /\ joins[i].name \in PoolNames
         /\ joins[j].name \in PoolNames)
            => FileIdx(joins[i].name) < FileIdx(joins[j].name)

\* extractModelDataToDF with every read resolving in declaration order.
RECURSIVE CollectInOrder(_, _, _)
CollectInOrder(d, i, D) ==
    IF i > Len(Files) THEN D
    ELSE CollectInOrder(d, i + 1, Collect(D, Files[i], process_file(Files[i], d[Files[i]])))

WithInfil(d, D) ==
    IF d["INFIL.DAT"].exists
    THEN SetFrame(D, "INFIL.DAT", read_infil_dat(d["INFIL.DAT"].lines).df)
    ELSE D

WithFpxsec(d, D) ==
    IF Len(read_fpxsec_data_as_df(d["FPXSEC.DAT"]).cols) > 0
    THEN SetFrame(D, "FPXSEC.DAT", read_fpxsec_data_as_df(d["FPXSEC.DAT"]))
    ELSE D

RECURSIVE MergeAll(_, _, _)
MergeAll(st, D, i) ==
    IF i > Len(D.keys) THEN st.result
    ELSE MergeAll(MergeOne(st, D.keys[i], D.frames[D.keys[i]]), D, i + 1)

DeclaredOrderFrames(d) ==
    WithFpxsec(d, WithInfil(d,
        ProcessMaxqhyd(CollectInOrder(d, 1, [keys |-> <<>>, frames |-> NoFrames])).D))

DeclaredOrderTable(d) ==
    LET D == DeclaredOrderFrames(d)
        merged == MergeAll([result |-> D.frames["DEPTH.OUT"],
                            total_rows |-> Len(D.frames["DEPTH.OUT"].rows)], D, 1)
    IN ensure_unique_columns(
           IF "SUPER.OUT" \in Range(D.keys) THEN super_join(merged, D.frames["SUPER.OUT"])
           ELSE merged)

\* Row i of a table as a map from column name to value.
RowMap(T, i) == [c \in Range(T.cols) |-> T.rows[i][ColIdx(T, c)]]

\* How often a row occurs in a table.
CountRow(T, m) == Cardinality({i \in 1..Len(T.rows) : RowMap(T, i) = m})

\* Same column names and the same rows, each as often, whatever the order
\* of the columns and of the rows.
SameContent(A, B) ==
    /\ Range(A.cols) = Range(B.cols)
    /\ Len(A.rows) = Len(B.rows)
    /\ \A i \in 1..Len(A.rows) : CountRow(A, RowMap(A, i)) = CountRow(B, RowMap(A, i))

\* C10: whatever the order in which the reads complete, the returned table
\* has the column names and the values, row by row, of the table obtained
\* when the reads complete in declaration order.
C10_OrderInsensitive ==
    pc = "returned" => SameContent(model_data, DeclaredOrderTable(dir))

\* Witness of C10: a table was returned after two joins whose reads
\* resolved out of declaration order.
C10_Witness ==
    /\ pc = "returned"
    /\ Len(JoinsOf({"controlled_merge"})) >= 2
    /\ OutOfOrder(data_frames.keys)
    /\ Len(model_data.rows) > Len(BaseTable.rows)

\* C11: in the table extractModelDataToDF returns after joining the table
\* of FPXSEC.DAT, every row whose grid cell is listed under no cross
\* section has fpxsec equal to 0 (not null).
C11_FpxsecZeroFill ==
    (pc = "returned" /\ "FPXSEC.DAT" \in Range(data_frames.keys)) =>
        \A i \in 1..Len(model_data.rows) :
            Column(model_data, "grid_id")[i]
                    \notin Range(Column(data_frames.frames["FPXSEC.DAT"], "grid_id"))
                => Column(model_data, "fpxsec")[i] = 0

\* The attribute columns of the SUPER.OUT table and the names a merge can
\* give them.
SuperAttributes == Range(super_columns) \ {"grid_id"}

SuperNames ==
    SuperAttributes \cup {c \o sfx : c \in SuperAttributes, sfx \in {"_x", "_y", "_SUPER.OUT"}}

CountCol(T, c) == Cardinality({i \in 1..Len(T.cols) : T.cols[i] = c})

\* C12: when the table of SUPER.OUT is there, it is joined exactly once, by
\* extractModelDataToDF after controlled_merge has returned and not by
\* controlled_merge, and the returned table has each of max_froude_no,
\* depth_super, time_super and num_supercritical_timesteps once under that
\* name; when SUPER.OUT is absent the returned table has no supercritical
\* column.
C12_SuperJoinedOnceLast ==
    pc = "returned" =>
        /\ "SUPER.OUT" \in Range(data_frames.keys) =>
              /\ Cardinality({k \in 1..Len(joins) : joins[k].name = "SUPER.OUT"}) = 1
              /\ joins[Len(joins)].name = "SUPER.OUT"
              /\ joins[Len(joins)].where = "extractModelDataToDF"
              /\ \A c \in SuperAttributes : CountCol(model_data, c) = 1
        /\ ~dir["SUPER.OUT"].exists => Range(model_data.cols) \cap SuperNames = {}

\* ------------------------------------------- ensure_unique_columns on its own
\* Column lists handed to ensure_unique_columns: up to MaxCols names, among
\* them a name that equals a generated one (a_1 next to a).
ColumnLists == UNION {[1..n -> {"a", "a_1", "b"}] : n \in 0..MaxCols}

UniqueInit ==
    /\ dir = OnlyBase(Absent)
    /\ pc = "call"
    /\ running = {}
    /\ next_task = 1
    /\ results = [n \in PoolNames |-> Pending]
    /\ data_frames = [keys |-> <<>>, frames |-> NoFrames]
    /\ fpxsec_read = [done |-> FALSE, df |-> NoTable]
    /\ reports = {}
    /\ merge_state = [result |-> NoTable, total_rows |-> 0]
    /\ merge_i = 0
    /\ main_df = NoTable
    /\ joins = <<>>
    /\ raised_at = ""
    /\ model_data = NoTable
    /\ arf_file = Absent
    /\ raster_columns = <<>>
    /\ unique_call \in {[cols |-> c, out |-> <<>>, done |-> FALSE] : c \in ColumnLists}
    /\ extras = NoExtras
    /\ geo_df = NoTable
    /\ super_geo_df = NoTable
    /\ evacuatedfp_geo_df = NoTable
    /\ time_out_geo_df = NoTable
    /\ created = <<>>
    /\ logged = <<>>
    /\ batch = NoBatch

\* df = ensure_unique_columns(df) for a table with the given column names.
CallEnsureUnique ==
    /\ pc = "call"
    /\ ~unique_call.done
    /\ unique_call' = [cols |-> unique_call.cols,
                       out |-> ensure_unique_columns([cols |-> unique_call.cols,
                                                      rows |-> <<>>]).cols,
                       done |-> TRUE]
    /\ UNCHANGED <<dir, pc, running, next_task, results, data_frames, fpxsec_read, reports,
                   merge_state, merge_i, main_df, joins, raised_at, model_data, arf_file,
                   raster_columns>>
    /\ UNCHANGED <<output_vars, batch>>

UniqueNext == CallEnsureUnique

SpecUnique == UniqueInit /\ [][UniqueNext]_vars

\* C13: the table ensure_unique_columns returns has no two columns with the
\* same name, whatever the column names of its argument.
C13_NamesUnique ==
    unique_call.done =>
        \A i \in 1..Len(unique_call.out) : \A j \in (i + 1)..Len(unique_call.out) :
            unique_call.out[i] # unique_call.out[j]

\* What C14 says of one join: the columns the merged table had keep their
\* names, and an attribute column of the joined table whose name the merged
\* table already has is appended under that name suffixed with "_" and the
\* joined table's file name.
SuffixedBySource(j) ==
    LET attrs == SelectSeq(j.right_cols, LAMBDA c : c # "grid_id")
    IN (\E c \in Range(attrs) : c \in Range(j.left_cols)) =>
          /\ SubSeq(j.out_cols, 1, Len(j.left_cols)) = j.left_cols
          /\ \A a \in 1..Len(attrs) :
                attrs[a] \in Range(j.left_cols)
                    => j.out_cols[Len(j.left_cols) + a] = attrs[a] \o "_" \o j.name

\* C14: every join that builds the returned table (those of controlled_merge
\* and the SUPER.OUT join) resolves a column-name collision by suffixing the
\* joined-in column with its source file name, the existing column keeping
\* its name.
C14_CollisionSuffix ==
    \A k \in 1..Len(joins) :
        joins[k].where \in {"controlled_merge", "extractModelDataToDF"} => SuffixedBySource(joins[k])

\* The sparse ARF table process_flo2d merged.
ArfTable == extract_area_reduction_factors(arf_file.lines).df

\* The ARF.DAT of scenario B: raw cell 1 (grid_id 0) with the factor 0.8.
ScenarioBArf == Present(<< <<"1", "8">> >>)

\* C15: after merge_arf_with_model_data a row whose grid_id the ARF table
\* lacks has arf 1.0, a row whose grid_id it holds has a factor the ARF
\* table gives for that grid_id; scenario B yields arf = [0.8, 1.0, 1.0].
C15_ArfDefaultFill ==
    /\ (pc \in {"outputs", "completed"} /\ arf_file.exists) =>
          \A i \in 1..Len(model_data.rows) :
             LET k == Column(model_data, "grid_id")[i]
                 a == Column(model_data, "arf")[i]
             IN IF k \notin Range(Column(ArfTable, "grid_id"))
                THEN a = 10
                ELSE \E r \in 1..Len(ArfTable.rows) :
                        ArfTable.rows[r] = <<k, a>>
    /\ (pc \in {"outputs", "completed"} /\ dir = ScenarioB /\ arf_file = ScenarioBArf) =>
          /\ Column(model_data, "grid_id") = <<0, 1, 2>>
          /\ Column(model_data, "arf") = <<8, 10, 10>>

\* Witness of C15: scenario B has gone through the ARF merge.
C15_Witness ==
    /\ pc = "outputs"
    /\ dir = ScenarioB
    /\ arf_file = ScenarioBArf
    /\ Len(model_data.rows) = 3

\* C16: when ARF.DAT is absent the table handed to the steps after step 3
\* is the table extractModelDataToDF returned, it has no arf column, and
\* step 14 makes no arf raster.
C16_ArfAbsentSkipped ==
    (pc \in {"outputs", "completed"} /\ ~arf_file.exists) =>
        /\ model_data = main_df
        /\ ~HasCol(model_data, "arf")
        /\ pc = "completed" => "arf" \notin Range(raster_columns)

\* Witness of C16: a run without ARF.DAT has completed and made rasters.
C16_Witness ==
    /\ pc = "completed"
    /\ ~arf_file.exists
    /\ Len(model_data.rows) >= 2
    /\ "depth_max" \in Range(raster_columns)

\* The non-blank lines of RAIN.DAT after its last line beginning with R.
RainDataLines(lines) ==
    LET last == CHOOSE i \in 1..Len(lines) :
                    /\ StartsWithR(lines[i])
                    /\ \A j \in (i + 1)..Len(lines) : ~StartsWithR(lines[j])
    IN SelectSeq(SubSeq(lines, last + 1, Len(lines)), LAMBDA l : l # <<>>)

\* C17: the table read from RAIN.DAT has one row per non-blank line after
\* the last R line, in order, and on a row with the numeric raw value v
\* rain_depth is v times the first token of the file's second line.
C17_RainScaled ==
    results["RAIN.DAT"].hasDf =>
        LET lines == dir["RAIN.DAT"].lines
            data == RainDataLines(lines)
            T == results["RAIN.DAT"].df
        IN /\ Len(T.rows) = Len(data)
           /\ \A i \in 1..Len(data) :
                 /\ Column(T, "grid_id")[i] = IntOf(data[i][1]) - 1
                 /\ isdigit(data[i][2]) =>
                       Column(T, "rain_depth")[i] = IntOf(data[i][2]) * IntOf(lines[2][1])

\* Witness of C17: a RAIN.DAT with the multiplier 3 and two data rows has
\* been read.
C17_Witness ==
    /\ results["RAIN.DAT"].hasDf
    /\ dir["RAIN.DAT"].lines[2][1] = "3"
    /\ Len(results["RAIN.DAT"].df.rows) = 2
    /\ \A i \in 1..2 : Column(results["RAIN.DAT"].df, "rain_depth")[i] # NaN

\* The well-formed data lines of each file: the right number of fields,
\* every value token numeric.
AllNumeric(l) == \A j \in 1..Len(l) : isdigit(l[j])

WellFormedRain(lines) ==
    SelectSeq(RainDataLines(lines), LAMBDA l : Len(l) = 2 /\ AllNumeric(l))

WellFormedInfil(lines) ==
    SelectSeq(SubSeq(lines, 4, Len(lines)),
              LAMBDA l : l # <<>> /\ l[1] = "F" /\ Len(l) = 8 /\ AllNumeric(Tail(l)))

WellFormedSuper(lines) ==
    SelectSeq(SubSeq(lines, 8, Len(lines)), LAMBDA l : Len(l) = 5 /\ AllNumeric(l))

WellFormedArf(lines) ==
    SelectSeq(lines, LAMBDA l : /\ Len(l) >= 2
                                /\ isdigit(l[2])
                                /\ (l[1] = "T" \/ isdigit(l[1])))

\* C18: the readers of RAIN.DAT, SUPER.OUT, INFIL.DAT and ARF.DAT raise on
\* no line of their file and return exactly one row per well-formed data
\* line (malformed lines are skipped).
C18_MalformedLinesSkipped ==
    /\ \A n \in {"RAIN.DAT", "SUPER.OUT"} :
          (dir[n].exists /\ results[n] # Pending) =>
             /\ results[n].hasDf
             /\ Len(results[n].df.rows) =
                   Len(IF n = "RAIN.DAT" THEN WellFormedRain(dir[n].lines)
                       ELSE WellFormedSuper(dir[n].lines))
    /\ raised_at # "INFIL.DAT"
    /\ "INFIL.DAT" \in Range(data_frames.keys) =>
          Len(data_frames.frames["INFIL.DAT"].rows) = Len(WellFormedInfil(dir["INFIL.DAT"].lines))
    /\ arf_file.exists =>
          /\ ~extract_area_reduction_factors(arf_file.lines).raised
          /\ Len(ArfTable.rows) = Len(WellFormedArf(arf_file.lines))

\* C19: verify_grid_ids reports on every table of data_frames that has a
\* grid_id column; the unique count it reports is below the total count
\* when the table repeats a grid_id, and the duplicate warning is printed
\* for a table exactly when its two counts differ.
C19_DuplicateReport ==
    pc \in {"base", "merge", "super", "unique", "returned", "arf", "outputs", "completed"} =>
        /\ \A n \in Range(data_frames.keys) :
              HasCol(data_frames.frames[n], "grid_id") => \E r \in reports : r.name = n
        /\ \A r \in reports :
              LET ids == Column(data_frames.frames[r.name], "grid_id")
              IN /\ r.total_count = Len(ids)
                 /\ ~NoRepeat(ids) => r.unique_count < r.total_count
                 /\ r.duplicate_warning <=> (r.unique_count # r.total_count)

\* Witness of C19: verify_grid_ids has reported on a table that repeats a
\* grid_id and on one that does not.
C19_Witness ==
    /\ pc = "base"
    /\ \E r \in reports : r.duplicate_warning /\ r.unique_count = 1 /\ r.total_count = 2
    /\ \E r \in reports : ~r.duplicate_warning /\ r.total_count = 2

\* DEPTH.OUT is absent, unreadable or without data: process_file gives no
\* table for it, or an empty one.
BaseMissing ==
    \/ ~process_file("DEPTH.OUT", dir["DEPTH.OUT"]).hasDf
    \/ IsEmpty(process_file("DEPTH.OUT", dir["DEPTH.OUT"]).df)

\* C20: when DEPTH.OUT is absent, unreadable or empty, extractModelDataToDF
\* returns no table, selects no other table as the join base and performs
\* no join, and the exception that ends the run names DEPTH.OUT.
C20_MissingBaseFatal ==
    BaseMissing =>
        /\ pc \notin {"merge", "super", "unique", "returned", "arf", "outputs", "completed"}
        /\ main_df = NoTable
        /\ joins = <<>>
        /\ pc = "raised" => raised_at = "DEPTH.OUT"

\* ------------------------------------------------------------ claim C23
\* The raw identifiers of the data lines of SUPER.OUT: the five-field lines
\* after the seven header lines.
SuperRawIds(lines) ==
    LET data == SelectSeq(SubSeq(lines, 8, Len(lines)), LAMBDA l : Len(l) = 5)
    IN [i \in 1..Len(data) |-> IntOf(data[i][1])]

\* C23: the SUPER.OUT table that process_file hands to the merge has one
\* row per data line, and the row of raw identifier k has grid_id k - 1,
\* which is never negative.
C23_SuperZeroBasedOnce ==
    (results["SUPER.OUT"].hasDf /\ ~IsEmpty(results["SUPER.OUT"].df)) =>
        /\ Len(results["SUPER.OUT"].df.rows) = Len(SuperRawIds(dir["SUPER.OUT"].lines))
        /\ \A i \in 1..Len(results["SUPER.OUT"].df.rows) :
              /\ Column(results["SUPER.OUT"].df, "grid_id")[i]
                    = SuperRawIds(dir["SUPER.OUT"].lines)[i] - 1
              /\ Column(results["SUPER.OUT"].df, "grid_id")[i] >= 0

\* ------------------------------------------------------------ claim C24
\* The raw identifiers of the F lines of INFIL.DAT after its three header
\* lines.
InfilRawIds(lines) ==
    LET kept == SelectSeq(SubSeq(lines, 4, Len(lines)), LAMBDA l : l # <<>> /\ l[1] = "F")
    IN [i \in 1..Len(kept) |-> to_numeric_coerce(kept[i][2])]

\* C24: the INFIL.DAT table in data_frames has one row per F line after
\* the three header lines, in file order, and the row of raw identifier k
\* has grid_id k - 1.
C24_InfilZeroBased ==
    "INFIL.DAT" \in Range(data_frames.keys) =>
        /\ Len(data_frames.frames["INFIL.DAT"].rows) = Len(InfilRawIds(dir["INFIL.DAT"].lines))
        /\ \A i \in 1..Len(data_frames.frames["INFIL.DAT"].rows) :
              Column(data_frames.frames["INFIL.DAT"], "grid_id")[i]
                 = InfilRawIds(dir["INFIL.DAT"].lines)[i] - 1

\* ------------------------------------------------------------ claim C25
\* C25: the table process_file returns for TOPO.DAT and INFIL_DEPTH.OUT has
\* one row per line after the skipped header rows, and its i-th row,
\* counted from 0, has grid_id i, whatever the line holds: the values are
\* 0..n-1 without repeats and nothing is subtracted from them.
C25_RowPositionIds ==
    \A n \in LineNumberFiles :
        results[n].hasDf =>
            /\ Len(results[n].df.rows) = Len(dir[n].lines) - skiprows(n)
            /\ Column(results[n].df, "grid_id")
                  = [i \in 1..(Len(dir[n].lines) - skiprows(n)) |-> i - 1]
            /\ NoRepeat(Column(results[n].df, "grid_id"))

\* Witness of C25: INFIL_DEPTH.OUT with a header row and two data rows
\* whose coordinates are not their positions has been read.
C25_Witness ==
    /\ results["INFIL_DEPTH.OUT"].hasDf
    /\ Len(dir["INFIL_DEPTH.OUT"].lines) = 3
    /\ dir["INFIL_DEPTH.OUT"].lines[2][1] = "2"
    /\ Column(results["INFIL_DEPTH.OUT"].df, "grid_id") = <<0, 1>>

\* ------------------------------------------------------------ claim C27
\* The rows C27 gives one line of ARF.DAT: a T line gives the raw
\* identifier minus 1 with the factor 1.0, a line of an integer and a
\* number gives the raw identifier minus 1 with that factor, any other
\* line gives nothing.
ArfClaimRows(parts) ==
    IF parts = <<>> THEN <<>>
    ELSE IF parts[1] = "T"
         THEN << <<Minus1(IF Len(parts) >= 2 THEN to_numeric_coerce(parts[2]) ELSE NaN), 10>> >>
         ELSE IF Len(parts) >= 2 /\ isdigit(parts[1]) /\ isdigit(parts[2])
              THEN << <<IntOf(parts[1]) - 1, IntOf(parts[2])>> >>
              ELSE <<>>

RECURSIVE ArfClaimTable(_, _)
ArfClaimTable(lines, i) ==
    IF i > Len(lines) THEN <<>> ELSE ArfClaimRows(lines[i]) \o ArfClaimTable(lines, i + 1)

\* C27: extract_area_reduction_factors returns, for an ARF.DAT that
\* exists, one row per T line and one row per line of an integer and a
\* number, in file order, and no other rows.
C27_ArfRowPerDataLine ==
    arf_file.exists =>
        /\ ~extract_area_reduction_factors(arf_file.lines).raised
        /\ raised_at # "ARF.DAT"
        /\ ArfTable.rows = ArfClaimTable(arf_file.lines, 1)

\* ------------------------------------------------------------ claim C28
\* The X lines of FPXSEC.DAT, in file order.
XLines(lines) == SelectSeq(lines, IsXLine)

\* The rows C28 gives the k-th X line and the X lines after it: one row
\* (raw identifier - 1, k) per numeric token from the fourth on.
RECURSIVE GroupRows(_, _)
GroupRows(xs, k) ==
    IF k > Len(xs) THEN <<>>
    ELSE LET ids == SelectSeq(SubSeq(xs[k], 4, Len(xs[k])), isdigit)
         IN [i \in 1..Len(ids) |-> <<IntOf(ids[i]) - 1, k>>] \o GroupRows(xs, k + 1)

\* C28: read_fpxsec_data_as_df numbers the X lines 1, 2, 3, ... in file
\* order and returns, for every numeric grid id of the k-th X line, the
\* row (raw id - 1, k); no row has the group id 0 and a line that is no X
\* line adds no row and does not advance the counter.
C28_FpxsecGroupIds ==
    (fpxsec_read.done /\ dir["FPXSEC.DAT"].exists) =>
        /\ fpxsec_read.df.rows = GroupRows(XLines(dir["FPXSEC.DAT"].lines), 1)
        /\ \A i \in 1..Len(fpxsec_read.df.rows) :
              /\ fpxsec_read.df.rows[i][2] \in 1..Len(XLines(dir["FPXSEC.DAT"].lines))
              /\ fpxsec_read.df.rows[i][2] # 0

\* Witness of C28: the file with a two-cell cross section, a line that is
\* no X line and a second cross section has been read into three rows.
C28_Witness ==
    /\ fpxsec_read.done
    /\ dir["FPXSEC.DAT"] = Present(FpxsecTwoCells)
    /\ fpxsec_read.df.rows = << <<0, 1>>, <<1, 1>>, <<0, 2>> >>

\* ------------------------------------------------------------ claim C30
\* C30: every resolved future holds either a table and no error or an
\* error message and no table, never both; it holds no table exactly when
\* the file is missing or its reader raised; the pool loop is never cut
\* short by an exception, and once it is over data_frames holds exactly the
\* pool files that returned a table with rows.
C30_ProcessFileNeverRaises ==
    /\ \A n \in PoolNames :
          results[n] # Pending =>
             /\ results[n].hasDf <=> (results[n].error = "")
             /\ ~results[n].hasDf => results[n].df = NoTable
             /\ ~results[n].hasDf <=> (~dir[n].exists \/ ReadFile(n, dir[n].lines).raised)
    /\ pc \notin {"start", "pool"} =>
          /\ AllResolved
          /\ \A n \in PoolNames :
                (n \in Range(data_frames.keys)) <=> (results[n].hasDf /\ ~IsEmpty(results[n].df))

\* Witness of C30: extractModelDataToDF has returned from a run in which
\* one file was missing, the reader of another raised, and the base table
\* was still collected.
C30_Witness ==
    /\ pc = "returned"
    /\ \E n \in PoolNames : results[n] = Failed
    /\ \E n \in PoolNames : results[n] = NotFound
    /\ "DEPTH.OUT" \in Range(data_frames.keys)

\* ------------------------------------------------------------ claim C21
\* C21: the failure of one artifact's write never leaves process_flo2d as
\* an exception: it is logged, the artifact is not counted as created, and
\* the steps after it still run.
C21_ArtifactFailureContained ==
    /\ pc = "raised" => raised_at \notin Artifacts
    /\ \A a \in extras.failing : a \notin Range(created)
    /\ pc = "completed" => Range(logged) \subseteq extras.failing \cup {"flow_direction"}

\* ------------------------------------------------------------ claim C26
\* Line i of a section file comes after a start sentinel with no stop
\* sentinel between that sentinel and the line (stop = <<>>: the format
\* has no stop sentinel).
InSection(lines, i, start, stop) ==
    \E j \in 1..(i - 1) :
        /\ StartsWithWords(lines[j], start)
        /\ \A k \in (j + 1)..(i - 1) : stop = <<>> \/ ~StartsWithWords(lines[k], stop)

\* The rows C26 gives a section file: one per two-field line inside a
\* section, in file order, holding the two fields as they are written.
SectionClaimRows(lines, start, stop) ==
    LET idx == SelectSeq([i \in 1..Len(lines) |-> i],
                         LAMBDA i : /\ Len(lines[i]) = 2
                                    /\ ~StartsWithWords(lines[i], start)
                                    /\ (stop = <<>> \/ ~StartsWithWords(lines[i], stop))
                                    /\ InSection(lines, i, start, stop))
    IN [k \in 1..Len(idx) |-> <<to_numeric_coerce(lines[idx[k]][1]),
                                to_numeric_coerce(lines[idx[k]][2])>>]

\* C26: for an EVACUATEDFP.OUT or TIME.OUT that exists the reader returns
\* a table with exactly one row per two-field line inside a section, in
\* file order, with the raw identifier as grid_id.
C26_SectionRows ==
    /\ extras.evac.exists =>
          /\ ~extract_evacuatedfp_data(extras.evac.lines).raised
          /\ extract_evacuatedfp_data(extras.evac.lines).df.rows
                = SectionClaimRows(extras.evac.lines, evac_start, <<>>)
    /\ extras.time.exists =>
          /\ ~extract_time_out_data(extras.time.lines).raised
          /\ extract_time_out_data(extras.time.lines).df.rows
                = SectionClaimRows(extras.time.lines, time_start, time_stop)

\* ------------------------------------------------------------ claim C29
\* The number of rows of T with the grid_id g.
RowsWithId(T, g) == Cardinality({i \in 1..Len(T.rows) : Column(T, "grid_id")[i] = g})

\* The layer L holds exactly the rows of geo_df whose grid_id occurs in the
\* section table S, once for each row S has for that grid_id, with the
\* geometry of the base row and a count of S that is not null.
LayerOfSection(L, S, count) ==
    /\ L.cols = <<"grid_id", count, "geometry">>
    /\ \A i \in 1..Len(L.rows) :
          /\ L.rows[i][2] # NaN
          /\ \E k \in 1..Len(geo_df.rows) :
                /\ Column(geo_df, "grid_id")[k] = L.rows[i][1]
                /\ Column(geo_df, "geometry")[k] = L.rows[i][3]
          /\ \E k \in 1..Len(S.rows) : S.rows[k] = <<L.rows[i][1], L.rows[i][2]>>
    /\ \A k \in 1..Len(geo_df.rows) :
          RowsWithId(L, Column(geo_df, "grid_id")[k])
             = RowsWithId(geo_df, Column(geo_df, "grid_id")[k])
               * RowsWithId(S, Column(geo_df, "grid_id")[k])

\* C29: the evacuation-count and time-decrement layers hold exactly the
\* base rows whose grid_id occurs in the extracted section table, each with
\* a count that is not null, and geo_df keeps every row of model_data.
C29_SectionLayers ==
    /\ evacuatedfp_geo_df # NoTable =>
          LayerOfSection(evacuatedfp_geo_df,
                         extract_evacuatedfp_data(extras.evac.lines).df, "num_evacuations")
    /\ time_out_geo_df # NoTable =>
          LayerOfSection(time_out_geo_df,
                         extract_time_out_data(extras.time.lines).df, "num_time_decrements")
    /\ geo_df # NoTable =>
          /\ Len(geo_df.rows) = Len(model_data.rows)
          /\ \A i \in 1..Len(geo_df.rows) :
                SubSeq(geo_df.rows[i], 1, Len(model_data.cols)) = model_data.rows[i]

\* Witness of C29: a run has completed in which both layers were made,
\* each with fewer rows than the base table.
C29_Witness ==
    /\ pc = "completed"
    /\ Len(evacuatedfp_geo_df.rows) >= 1
    /\ Len(time_out_geo_df.rows) >= 1
    /\ Len(evacuatedfp_geo_df.rows) < Len(geo_df.rows)
    /\ Len(time_out_geo_df.rows) < Len(geo_df.rows)

\* ------------------------------------------------------------ claim C22
\* batch_process_flo2d: process_flo2d runs for each directory of file_paths
\* in turn; an exception of process_flo2d is not caught by the loop.
MaxBatch == 2

\* The directories of a batch: one that process_flo2d completes, one
\* without cross sections and one without DEPTH.OUT.
BatchDirs == {ScenarioB, ScenarioA, OnlyBase(Absent)}

BatchLists == UNION {[1..n -> BatchDirs] : n \in 1..MaxBatch}

BatchInit ==
    /\ batch \in {[file_paths |-> fp, i |-> 1, results |-> <<>>, returned |-> FALSE] :
                     fp \in BatchLists}
    /\ dir = batch.file_paths[1]
    /\ pc = "start"
    /\ running = {}
    /\ next_task = 1
    /\ results = [n \in PoolNames |-> Pending]
    /\ data_frames = [keys |-> <<>>, frames |-> NoFrames]
    /\ fpxsec_read = [done |-> FALSE, df |-> NoTable]
    /\ reports = {}
    /\ merge_state = [result |-> NoTable, total_rows |-> 0]
    /\ merge_i = 0
    /\ main_df = NoTable
    /\ joins = <<>>
    /\ raised_at = ""
    /\ model_data = NoTable
    /\ arf_file = Absent
    /\ raster_columns = <<>>
    /\ unique_call = NoCall
    /\ extras = NoExtras
    /\ geo_df = NoTable
    /\ super_geo_df = NoTable
    /\ evacuatedfp_geo_df = NoTable
    /\ time_out_geo_df = NoTable
    /\ created = <<>>
    /\ logged = <<>>

\* results.append(f"{file_path}: {result}") after process_flo2d has
\* returned, then the next directory, or the return of the joined lines.
AppendResult ==
    /\ batch.i >= 1
    /\ ~batch.returned
    /\ pc = "completed"
    /\ batch' = [batch EXCEPT
                    !.results = Append(@, [file_path |-> batch.file_paths[batch.i],
                                           result |-> "completed successfully"]),
                    !.i = IF batch.i < Len(batch.file_paths) THEN batch.i + 1 ELSE batch.i,
                    !.returned = (batch.i = Len(batch.file_paths))]
    /\ IF batch.i < Len(batch.file_paths)
       THEN /\ dir' = batch.file_paths[batch.i + 1]
            /\ pc' = "start"
            /\ running' = {}
            /\ next_task' = 1
            /\ results' = [n \in PoolNames |-> Pending]
            /\ data_frames' = [keys |-> <<>>, frames |-> NoFrames]
            /\ fpxsec_read' = [done |-> FALSE, df |-> NoTable]
            /\ reports' = {}
            /\ merge_state' = [result |-> NoTable, total_rows |-> 0]
            /\ merge_i' = 0
            /\ main_df' = NoTable
            /\ joins' = <<>>
            /\ model_data' = NoTable
            /\ arf_file' = Absent
            /\ raster_columns' = <<>>
            /\ extras' = NoExtras
            /\ geo_df' = NoTable
            /\ super_geo_df' = NoTable
            /\ evacuatedfp_geo_df' = NoTable
            /\ time_out_geo_df' = NoTable
            /\ created' = <<>>
            /\ logged' = <<>>
       ELSE /\ pc' = "batch_returned"
            /\ UNCHANGED <<dir, running, next_task, results, data_frames, fpxsec_read, reports,
                           merge_state, merge_i, main_df, joins, model_data, arf_file,
                           raster_columns, output_vars>>
    /\ UNCHANGED <<raised_at, unique_call>>

BatchNext == Next \/ AppendResult

SpecBatch == BatchInit /\ [][BatchNext]_vars

\* C22: when batch_process_flo2d is over, by return or by exception, it has
\* returned a summary with exactly one status line per given directory, in
\* the order given.
C22_OneLinePerDirectory ==
    (batch.i >= 1 /\ pc \in {"batch_returned", "raised"}) =>
        /\ batch.returned
        /\ Len(batch.results) = Len(batch.file_paths)
        /\ \A k \in 1..Len(batch.file_paths) :
              batch.results[k].file_path = batch.file_paths[k]

====
